---- MODULE Spec2Model ----
(***************************************************************************)
(* A model of the document loader of xmind_loader.py: the process-wide     *)
(* result cache (_file_cache), the file fingerprint, archive validation,   *)
(* extraction into a temporary directory, content.json parsing, the        *)
(* conversion into the canonical document, and XmindFileLoader.load with   *)
(* its error translation and cleanup.                                      *)
(*                                                                         *)
(* Python values are tagged records [t |-> type, v |-> value]; None is     *)
(* [t |-> "null"].  A dict is a TLA+ function from key strings to values,  *)
(* a list is a sequence.                                                   *)
(***************************************************************************)
EXTENDS Integers, Sequences, FiniteSets, TLC

(***************************************************************************)
(* Bounds of the model.                                                    *)
(***************************************************************************)
\* _cache_max_size (xmind_loader.py:21 sets 100); scaled down so that the
\* cache fills up within the explored runs.
cache_max_size == 2
\* time.time() takes the values 0..MaxTime
MaxTime == 1
\* st_mtime takes the values 1..MaxMtime
MaxMtime == 2
\* how many times the environment rewrites a file during a run
MaxWrites == 2
\* how many API calls (load, _set_cached_data, ...) a run makes
MaxCalls == 3
\* how many direct _get_cached_data lookups a run makes
MaxGets == 1
\* how many temporary directories can exist at once
MaxDirs == 2
\* how many times the operating system fails an operation (mkdtemp, a
\* write during extractall, rmtree) during a run
MaxFaults == 1
\* uuid4 draws from 1..MaxUuid
MaxUuid == 2

Threads == {"t1", "t2"}

(***************************************************************************)
(* Python values.                                                          *)
(***************************************************************************)
None == [t |-> "null"]
JStr(s) == [t |-> "str", v |-> s]
JNum(n) == [t |-> "num", v |-> n]
JList(s) == [t |-> "list", v |-> s]
JDict(d) == [t |-> "dict", v |-> d]
EmptyDict == JDict([k \in {} |-> None])

isdict(x) == x.t = "dict"
islist(x) == x.t = "list"
isstr(x) == x.t = "str"

\* Python truthiness: None, {}, [], "" and 0 are false
truthy(x) ==
    CASE x.t = "null" -> FALSE
      [] x.t = "dict" -> DOMAIN x.v # {}
      [] x.t = "list" -> Len(x.v) > 0
      [] x.t = "str" -> x.v # ""
      [] x.t = "num" -> x.v # 0
      [] OTHER -> TRUE

\* key in d, for a dict d
has(d, k) == k \in DOMAIN d.v
\* d.get(k, default), for a dict d
get(d, k, default) == IF k \in DOMAIN d.v THEN d.v[k] ELSE default

(***************************************************************************)
(* The file system.  A path holds a file [kind, mtime]; the kind says      *)
(* what the file is and, for an archive with a content.json entry, what    *)
(* that entry holds.                                                       *)
(***************************************************************************)
Paths == {"a.XMind", "c.zip"}

\* xmind_file.lower().endswith('.xmind')
lower_endswith_xmind(p) ==
    CASE p = "a.XMind" -> TRUE
      [] p = "b.xmind" -> TRUE
      [] p = "c.zip" -> FALSE

\* content.json entries: what the payload text is
PayloadKinds == {"zero", "malformed", "scalar", "elist", "eobj",
                 "sheets_notlist", "sheets_empty", "badsheet",
                 "modern", "legacy", "notopic"}
\* files that are no archive with a content.json entry
PlainKinds == {"absent", "empty", "notzip", "corrupt", "nopayload"}
Kinds == PlainKinds \cup PayloadKinds
\* further content.json entries, of archives that pass validation: documents
\* with topics, children and markers of every form, and archives that carry
\* a metadata.json entry next to content.json
DocKinds == {"rootnull", "rootstr", "nulltopic", "empties", "modern_root",
             "legacy_both", "children", "markers", "markers_edge", "noid",
             "meta_ok", "meta_bad", "notes", "notes_edge",
             "sheet_noid", "sheet_nullid"}
ValidKinds == {"modern", "legacy", "notopic"}

Files == [kind : Kinds, mtime : 1..MaxMtime]
\* what the environment writes: a path is deleted, overwritten with
\* something that is no archive or no document, or with a valid document
WrittenKinds == {"absent", "notzip", "nopayload", "malformed", "modern", "legacy"}
Written == [kind : WrittenKinds, mtime : 1..MaxMtime]

\* os.path.exists
exists(f) == f.kind # "absent"
\* st_size / os.path.getsize: the byte length of the file
getsize(f) ==
    CASE f.kind = "empty" -> 0
      [] f.kind \in {"notzip", "corrupt", "nopayload"} -> 1
      [] f.kind \in {"zero", "malformed", "scalar", "elist", "eobj"} -> 2
      [] f.kind \in {"sheets_notlist", "sheets_empty", "badsheet"} -> 3
      [] f.kind \in {"modern", "legacy"} -> 4
      [] OTHER -> 5
\* zipfile.ZipFile(f) opens
is_zip(f) == f.kind \notin {"absent", "empty", "notzip"}
\* zip_ref.testzip() is None
crc_ok(f) == f.kind # "corrupt"
\* the entries of an archive
entries(k) ==
    IF k \in {"meta_ok", "meta_bad"} THEN {"content.json", "metadata.json"}
    ELSE IF k \in PayloadKinds \cup DocKinds THEN {"content.json"}
    ELSE {"other.txt"}
\* zip_ref.namelist()
namelist(f) == entries(f.kind)

\* the text of content.json, by payload kind
payload_text(k) ==
    CASE k = "zero" -> ""
      [] k = "malformed" -> "{"
      [] k = "scalar" -> "5"
      [] k = "elist" -> "[]"
      [] k = "eobj" -> "{}"
      [] k = "sheets_notlist" -> "{sheets:5}"
      [] k = "sheets_empty" -> "{sheets:[]}"
      [] k = "badsheet" -> "{sheets:[5]}"
      [] k = "modern" -> "{sheets:[{id,title,topic}]}"
      [] k = "legacy" -> "[{id,rootTopic}]"
      [] k = "notopic" -> "{sheets:[{id,title}]}"
      [] k = "rootnull" -> "null"
      [] k = "rootstr" -> "'x'"
      [] k = "nulltopic" -> "{sheets:[{id,topic:null}]}"
      [] k = "empties" -> "{sheets:[{id},{id,topic:{}},{id,topic:{id,topics:[{}],children:[{},null]}}]}"
      [] k = "modern_root" -> "{sheets:[{id,rootTopic}]}"
      [] k = "legacy_both" -> "[{id,topic,rootTopic}]"
      [] k = "children" -> "{sheets:[{id,topic:{id,topics:[A,B],children:[C,A]}}]}"
      [] k = "markers" -> "{sheets:[{id,topic:{id,markers}}]}"
      [] k = "markers_edge" -> "{sheets:[{id,topic:{id,markers:edge}}]}"
      [] k = "noid" -> "{sheets:[{id,topic:{title,topics:[{title}],children:[{title}]}}]}"
      [] k \in {"meta_ok", "meta_bad"} -> "{sheets:[{id,title,topic}]}"
      [] k = "notes" -> "{sheets:[{id,topic:{id,children:notes}}]}"
      [] k = "notes_edge" -> "{sheets:[{id,topic:{id,children:notes_edge}}]}"
      [] k = "sheet_noid" -> "{sheets:[{id,title},{title},{id}]}"
      [] k = "sheet_nullid" -> "{sheets:[{id:null,title}]}"

\* the text of metadata.json, by kind
metadata_text(k) == IF k = "meta_bad" THEN "{" ELSE "{}"

ModernTopic ==
    JDict([id |-> JStr("t1"), title |-> JStr("root"),
           children |-> JDict([attached |->
               JList(<<JDict([id |-> JStr("t2"), title |-> JStr("child")])>>)])])

\* the topics and marker lists of the documents above
TopicId(i) == JDict([id |-> JStr(i)])
TopicTitle(s) == JDict([title |-> JStr(s)])
Attached(seq) == JDict([attached |-> JList(seq)])
Sheets(seq) == JDict([sheets |-> JList(seq)])
SheetOf(i, topic) == JDict([id |-> JStr(i), topic |-> topic])

PlainMarkers ==
    JList(<<JStr("m1"), JDict([markerId |-> JStr("m2")]),
            JDict([id |-> JStr("m3")]),
            JDict([markerId |-> JStr("m4"), id |-> JStr("m5")]),
            JNum(5), JStr("m1")>>)

EdgeMarkers ==
    JList(<<JDict([markerId |-> JStr(""), id |-> JStr("m6")]),
            JDict([markerId |-> None, id |-> JStr("m7")]),
            JDict([markerId |-> JNum(5), id |-> JStr("m8")]),
            EmptyDict,
            JDict([markerId |-> JStr(""), id |-> JStr("")])>>)

\* topics with a note, with structured notes, with both and with neither
PlainNotes(s) == JDict([plain |-> JDict([content |-> JStr(s)])])

NotedTopics ==
    <<JDict([id |-> JStr("a"), note |-> JStr("n1")]),
      JDict([id |-> JStr("b"), note |-> JStr("n1"), notes |-> PlainNotes("n2")]),
      JDict([id |-> JStr("c"), notes |-> PlainNotes("n2")]),
      TopicId("d"),
      JDict([id |-> JStr("e"), notes |-> JStr("x")]),
      JDict([id |-> JStr("f"), notes |-> JDict([plain |-> JStr("x")])])>>

\* topics whose note is empty or null
EdgeNotedTopics ==
    <<JDict([id |-> JStr("g"), note |-> JStr(""), notes |-> PlainNotes("n2")]),
      JDict([id |-> JStr("h"), note |-> JStr("")]),
      JDict([id |-> JStr("i"), note |-> JStr(""),
             notes |-> JDict([plain |-> EmptyDict])]),
      JDict([id |-> JStr("j"), note |-> None, notes |-> PlainNotes("n2")]),
      JDict([id |-> JStr("k"), note |-> JStr(""),
             notes |-> JDict([plain |-> JStr("x")])])>>

JSONDecodeError == [t |-> "JSONDecodeError"]

\* json.load of a content.json text
json_load(text) ==
    CASE text = "" -> JSONDecodeError
      [] text = "{" -> JSONDecodeError
      [] text = "5" -> JNum(5)
      [] text = "[]" -> JList(<<>>)
      [] text = "{}" -> EmptyDict
      [] text = "{sheets:5}" -> JDict([sheets |-> JNum(5)])
      [] text = "{sheets:[]}" -> JDict([sheets |-> JList(<<>>)])
      [] text = "{sheets:[5]}" -> JDict([sheets |-> JList(<<JNum(5)>>)])
      [] text = "{sheets:[{id,title,topic}]}" ->
            JDict([sheets |-> JList(<<JDict([id |-> JStr("s1"),
                                              title |-> JStr("Sheet"),
                                              topic |-> ModernTopic])>>)])
      [] text = "[{id,rootTopic}]" ->
            JList(<<JDict([id |-> JStr("s2"),
                           rootTopic |-> JDict([title |-> JStr("r")])])>>)
      [] text = "{sheets:[{id,title}]}" ->
            JDict([sheets |-> JList(<<JDict([id |-> JStr("s3"),
                                              title |-> JStr("E")])>>)])
      [] text = "null" -> None
      [] text = "'x'" -> JStr("x")
      [] text = "{sheets:[{id,topic:null}]}" -> Sheets(<<SheetOf("s4", None)>>)
      [] text = "{sheets:[{id},{id,topic:{}},{id,topic:{id,topics:[{}],children:[{},null]}}]}" ->
            Sheets(<<TopicId("s5"), SheetOf("s6", EmptyDict),
                     SheetOf("s7", JDict([id |-> JStr("r7"),
                                          topics |-> JList(<<EmptyDict>>),
                                          children |-> Attached(<<EmptyDict, None>>)]))>>)
      [] text = "{sheets:[{id,rootTopic}]}" ->
            Sheets(<<JDict([id |-> JStr("s8"),
                            rootTopic |-> JDict([id |-> JStr("r8"),
                                                 title |-> JStr("R")])])>>)
      [] text = "[{id,topic,rootTopic}]" ->
            JList(<<JDict([id |-> JStr("s9"), topic |-> TopicId("a"),
                           rootTopic |-> TopicId("b")])>>)
      [] text = "{sheets:[{id,topic:{id,topics:[A,B],children:[C,A]}}]}" ->
            Sheets(<<SheetOf("s10", JDict([id |-> JStr("r10"),
                        topics |-> JList(<<TopicId("A"), TopicId("B")>>),
                        children |-> Attached(<<TopicId("C"), TopicId("A")>>)]))>>)
      [] text = "{sheets:[{id,topic:{id,markers}}]}" ->
            Sheets(<<SheetOf("s11", JDict([id |-> JStr("r11"),
                                           markers |-> PlainMarkers]))>>)
      [] text = "{sheets:[{id,topic:{id,markers:edge}}]}" ->
            Sheets(<<SheetOf("s12", JDict([id |-> JStr("r12"),
                                           markers |-> EdgeMarkers]))>>)
      [] text = "{sheets:[{id,topic:{title,topics:[{title}],children:[{title}]}}]}" ->
            Sheets(<<SheetOf("s13", JDict([title |-> JStr("r"),
                        topics |-> JList(<<TopicTitle("i")>>),
                        children |-> Attached(<<TopicTitle("c")>>)]))>>)
      [] text = "{sheets:[{id,topic:{id,children:notes}}]}" ->
            Sheets(<<SheetOf("s14", JDict([id |-> JStr("r14"),
                                           note |-> JStr("n0"),
                                           children |-> Attached(NotedTopics)]))>>)
      [] text = "{sheets:[{id,topic:{id,children:notes_edge}}]}" ->
            Sheets(<<SheetOf("s15", JDict([id |-> JStr("r15"),
                                           children |-> Attached(EdgeNotedTopics)]))>>)
      [] text = "{sheets:[{id,title},{title},{id}]}" ->
            Sheets(<<JDict([id |-> JStr("s16"), title |-> JStr("T")]),
                     TopicTitle("U"), TopicId("s17")>>)
      [] text = "{sheets:[{id:null,title}]}" ->
            Sheets(<<JDict([id |-> None, title |-> JStr("V")])>>)

(***************************************************************************)
(* validate_xmind_file.  The function raises one exception per condition   *)
(* inside its try block, logs it and returns False; validate_reason is     *)
(* the exception raised ("ok" when none is).                               *)
(***************************************************************************)
validate_reason(p, f) ==
    IF ~exists(f) THEN "FileNotFoundError"
    ELSE IF ~lower_endswith_xmind(p) THEN "ValueError:extension"
    ELSE IF getsize(f) = 0 THEN "ValueError:size"
    ELSE IF ~is_zip(f) THEN "BadZipFile:open"
    ELSE IF ~crc_ok(f) THEN "BadZipFile:testzip"
    ELSE IF "content.json" \notin namelist(f) THEN "ValueError:content.json"
    ELSE "ok"

\* a validation that only looks whether the path exists
validate_xmind_file_exists_only(p, f) == exists(f)

\* validate_xmind_file, lines 183-213: True, or False when any check raised
validate_xmind_file(p, f) == validate_reason(p, f) = "ok"

(***************************************************************************)
(* ContentJsonParser.                                                      *)
(***************************************************************************)
\* a validation that lets an empty array and an empty sheets list through
validate_content_structure_lenient(content_data) ==
    IF islist(content_data) THEN "ok"
    ELSE IF ~isdict(content_data) THEN "ValueError:root"
    ELSE IF ~has(content_data, "sheets") THEN "ValueError:no sheets"
    ELSE IF ~islist(content_data.v["sheets"]) THEN "ValueError:sheets not list"
    ELSE "ok"

\* _validate_content_structure: "ok", or the ValueError it raises
validate_content_structure(content_data) ==
    IF islist(content_data)
    THEN IF Len(content_data.v) = 0 THEN "ValueError:empty array" ELSE "ok"
    ELSE IF ~isdict(content_data) THEN "ValueError:root"
    ELSE IF ~has(content_data, "sheets") THEN "ValueError:no sheets"
    ELSE IF ~islist(content_data.v["sheets"]) THEN "ValueError:sheets not list"
    ELSE IF Len(content_data.v["sheets"].v) = 0 THEN "ValueError:sheets empty"
    ELSE "ok"

\* an except clause that lets the failure of metadata.json through
metadata_failure_raised(failure) == failure

\* _load_additional_data, lines 274-278: whatever reading or parsing
\* metadata.json raises is caught and logged
metadata_failure(failure) == "none"

\* _load_additional_data on a directory holding the entries `names`: the
\* exception that leaves it
load_additional_data(names, k) ==
    IF "metadata.json" \notin names THEN "none"
    ELSE IF json_load(metadata_text(k)) = JSONDecodeError
    THEN metadata_failure("JSONDecodeError")
    ELSE "none"

\* parse_content_json on an extraction directory holding the entries `names`
\* with content.json of payload kind k: the exception that leaves the
\* function ("none": it returns val), and the failure behind it
parse_content_json(names, k) ==
    IF "content.json" \notin names
    THEN [exc |-> "FileNotFoundError", why |-> "no content.json", val |-> None]
    ELSE LET content_data == json_load(payload_text(k)) IN
         IF content_data = JSONDecodeError
         THEN [exc |-> "ValueError", why |-> "JSONDecodeError", val |-> None]
         ELSE IF validate_content_structure(content_data) # "ok"
         THEN [exc |-> "RuntimeError",
               why |-> validate_content_structure(content_data), val |-> None]
         ELSE IF load_additional_data(names, k) # "none"
         THEN [exc |-> "RuntimeError", why |-> "metadata.json", val |-> None]
         ELSE [exc |-> "none", why |-> "ok", val |-> content_data]

(***************************************************************************)
(* DataFormatConverter.  u is the value uuid4 draws; pos is the place of   *)
(* the topic in the document, so that two synthesized ids of one document  *)
(* differ.                                                                 *)
(***************************************************************************)
uuid4(u, pos) == [t |-> "uuid", v |-> <<u, pos>>]

\* a or b
py_or(a, b) == IF truthy(a) THEN a ELSE b

\* an identifier that falls back to 'id' only when 'markerId' is absent
marker_id_when_absent(m) ==
    IF has(m, "markerId") THEN m.v["markerId"] ELSE get(m, "id", None)

\* line 355: m.get('markerId') or m.get('id')
marker_id(m) == py_or(get(m, "markerId", None), get(m, "id", None))

RECURSIVE convert_markers(_)
convert_markers(raw) ==
    IF Len(raw) = 0 THEN <<>>
    ELSE LET m == Head(raw)
             mid == IF isdict(m) THEN marker_id(m) ELSE m
             keep == isstr(mid)
         IN (IF keep THEN <<mid>> ELSE <<>>) \o convert_markers(Tail(raw))

\* the list children.attached of a topic dict (empty when there is none)
attached_of(topic_data) ==
    LET children == get(topic_data, "children", None)
        attached == IF isdict(children) THEN get(children, "attached", None) ELSE None
    IN IF islist(attached) THEN attached.v ELSE <<>>

\* whether _convert_topic raises AttributeError: topic_data.get on a value
\* that is no dict, here or in an attached child
RECURSIVE convert_topic_raises(_)
convert_topic_raises(topic_data) ==
    IF ~truthy(topic_data) THEN FALSE
    ELSE IF ~isdict(topic_data) THEN TRUE
    ELSE \E i \in 1..Len(attached_of(topic_data)) :
            convert_topic_raises(attached_of(topic_data)[i])

\* lines 322-331: the topic returned for a raw topic that is falsy
minimal_topic(topic_id) ==
    [id |-> topic_id, link |-> None, title |-> None, note |-> None,
     label |-> None, comment |-> None, markers |-> <<>>, topics |-> <<>>]

\* children that put the attached list first
merge_children_attached_first(inline, attached) == attached \o inline

\* lines 362-371: the inline list 'topics' as it is (not converted), each
\* converted attached child appended to it
merge_children(inline, attached) == inline \o attached

\* a note that falls back to notes.plain only when 'note' is absent
topic_note_when_absent(topic_data) ==
    LET notes == get(topic_data, "notes", None)
        plain == IF isdict(notes) THEN get(notes, "plain", None) ELSE None
    IN IF ~has(topic_data, "note") /\ isdict(plain)
       THEN get(plain, "content", None) ELSE get(topic_data, "note", None)

\* lines 336-343: note = topic_data.get('note'); if not note, the content
\* of notes.plain when notes and notes.plain are dicts
topic_note(topic_data) ==
    LET note == get(topic_data, "note", None)
        notes == get(topic_data, "notes", None)
        plain == IF isdict(notes) THEN get(notes, "plain", None) ELSE None
    IN IF ~truthy(note) /\ isdict(plain)
       THEN get(plain, "content", None) ELSE note

RECURSIVE convert_topic(_, _, _)
convert_topic(topic_data, u, pos) ==
    IF ~truthy(topic_data)
    THEN minimal_topic(uuid4(u, pos))
    ELSE LET note == topic_note(topic_data)
             raw_markers == get(topic_data, "markers", JList(<<>>))
             inline == get(topic_data, "topics", None)
             attached == attached_of(topic_data)
         IN [id |-> get(topic_data, "id", JStr("")),
             link |-> get(topic_data, "link", None),
             title |-> get(topic_data, "title", None),
             note |-> note,
             label |-> get(topic_data, "label", None),
             comment |-> get(topic_data, "comment", None),
             markers |-> IF islist(raw_markers)
                         THEN convert_markers(raw_markers.v) ELSE <<>>,
             topics |-> merge_children(
                            IF islist(inline) THEN inline.v ELSE <<>>,
                            [i \in 1..Len(attached) |->
                                convert_topic(attached[i], u, Append(pos, i))])]

\* the raw sheets convert_to_xmind_format walks, and the raw topic of one
sheets_of(content_data) ==
    IF islist(content_data) THEN content_data.v
    ELSE IF has(content_data, "sheets") THEN content_data.v["sheets"].v
    ELSE <<>>

sheet_topic(content_data, sheet) ==
    IF islist(content_data)
    THEN get(sheet, "topic", get(sheet, "rootTopic", EmptyDict))
    ELSE get(sheet, "topic", EmptyDict)

\* whether convert_to_xmind_format raises (sheet.get on a sheet that is no
\* dict, or _convert_topic raising)
convert_raises(content_data) ==
    /\ truthy(content_data)
    /\ \E i \in 1..Len(sheets_of(content_data)) :
          LET sheet == sheets_of(content_data)[i] IN
          \/ ~isdict(sheet)
          \/ convert_topic_raises(sheet_topic(content_data, sheet))

convert_to_xmind_format(content_data, u) ==
    IF ~truthy(content_data) THEN <<>>
    ELSE [i \in 1..Len(sheets_of(content_data)) |->
            LET sheet == sheets_of(content_data)[i] IN
            [id |-> get(sheet, "id", JStr("")),
             title |-> get(sheet, "title", None),
             topic |-> convert_topic(sheet_topic(content_data, sheet), u, <<i>>)]]

\* whether the conversion draws a uuid4
RECURSIVE topic_needs_uuid(_)
topic_needs_uuid(topic_data) ==
    IF ~truthy(topic_data) THEN TRUE
    ELSE \E i \in 1..Len(attached_of(topic_data)) :
            topic_needs_uuid(attached_of(topic_data)[i])

needs_uuid(content_data) ==
    \E i \in 1..Len(sheets_of(content_data)) :
        topic_needs_uuid(sheet_topic(content_data, sheets_of(content_data)[i]))

\* lines 362-371 on the caller's data: `topics` is the list object of the
\* raw topic when that holds a list under 'topics', so that each
\* topics.append(...) extends the raw topic's own list; the attached
\* children are left as their own conversions leave them
RECURSIVE topic_after_convert(_, _, _)
topic_after_convert(topic_data, u, pos) ==
    IF ~truthy(topic_data) THEN topic_data
    ELSE LET inline == get(topic_data, "topics", None)
             attached == attached_of(topic_data)
             converted == [i \in 1..Len(attached) |->
                              convert_topic(attached[i], u, Append(pos, i))]
             left == [i \in 1..Len(attached) |->
                         topic_after_convert(attached[i], u, Append(pos, i))]
             t1 == IF Len(attached) = 0 THEN topic_data
                   ELSE [topic_data EXCEPT !.v.children.v.attached.v = left]
         IN IF islist(inline)
            THEN [t1 EXCEPT !.v.topics.v = merge_children(inline.v, converted)]
            ELSE t1

\* the key under which convert_to_xmind_format finds the topic of a sheet
\* ("" when the sheet has none and the default {} is converted)
sheet_topic_key(content_data, sheet) ==
    IF has(sheet, "topic") THEN "topic"
    ELSE IF islist(content_data) /\ has(sheet, "rootTopic") THEN "rootTopic"
    ELSE ""

\* the parsed payload as convert_to_xmind_format(content_data) leaves it
content_after_convert(content_data, u) ==
    IF ~truthy(content_data) THEN content_data
    ELSE LET sheets == sheets_of(content_data)
             left == [i \in 1..Len(sheets) |->
                        LET key == sheet_topic_key(content_data, sheets[i]) IN
                        IF key = "" THEN sheets[i]
                        ELSE [sheets[i] EXCEPT !.v[key] =
                                 topic_after_convert(sheets[i].v[key], u, <<i>>)]]
         IN IF islist(content_data) THEN [content_data EXCEPT !.v = left]
            ELSE IF has(content_data, "sheets")
            THEN [content_data EXCEPT !.v.sheets.v = left]
            ELSE content_data

(***************************************************************************)
(* The cache: _file_cache is a dict, kept here as the sequence of its      *)
(* entries [key, data, timestamp] in dict order (the order of first        *)
(* insertion of each key).                                                 *)
(***************************************************************************)
\* a fingerprint that leaves the modification time out
get_file_cache_key_no_mtime(p, f) ==
    IF exists(f) THEN <<p, getsize(f)>> ELSE <<p>>

\* _get_file_cache_key: f"{file_path}_{st_mtime}_{st_size}", or file_path
\* alone when os.stat raises.  The formatted string determines the three
\* parts (neither number holds a "_"), so the key is kept as the tuple.
get_file_cache_key(p, f) ==
    IF exists(f) THEN <<p, f.mtime, getsize(f)>> ELSE <<p>>

cache_keys(c) == {c[i].key : i \in 1..Len(c)}
cache_index(c, k) == CHOOSE i \in 1..Len(c) : c[i].key = k

\* _file_cache.get(cache_key): the entry, or None
cache_get(c, k) ==
    IF k \in cache_keys(c)
    THEN [t |-> "entry", data |-> c[cache_index(c, k)].data,
          timestamp |-> c[cache_index(c, k)].timestamp]
    ELSE None

\* a lookup that refreshes the timestamp of the entry it hits (an LRU cache)
cache_after_get_refresh(c, k, now) ==
    [i \in 1..Len(c) |-> IF c[i].key = k THEN [c[i] EXCEPT !.timestamp = now]
                                          ELSE c[i]]

\* a lookup that moves the entry it hits to the end of the dict
cache_after_get_move_to_end(c, k, now) ==
    SelectSeq(c, LAMBDA e : e.key # k) \o SelectSeq(c, LAMBDA e : e.key = k)

\* _get_cached_data only reads: a lookup at time `now` that hits key k
\* leaves the cache as it is
cache_after_get(c, k, now) == c

\* a capacity check that is off by one
cache_full_off_by_one(c) == Len(c) > cache_max_size

\* len(_file_cache) >= _cache_max_size
cache_full(c) == Len(c) >= cache_max_size

\* min(_file_cache.keys(), key=timestamp): the first key, in dict order,
\* among those of the smallest timestamp
oldest_key_of(c) ==
    LET i == CHOOSE i \in 1..Len(c) :
                 /\ \A j \in 1..Len(c) : c[i].timestamp <= c[j].timestamp
                 /\ \A j \in 1..(i - 1) : c[j].timestamp > c[i].timestamp
    IN c[i].key

\* an eviction that empties the cache
cache_del_all(c, k) == <<>>

\* del _file_cache[k]
cache_del(c, k) == SelectSeq(c, LAMBDA e : e.key # k)

\* an insert under a key that the lookup does not compute: the path alone
cache_put_path_key(c, k, data, now) ==
    LET e == [key |-> <<k[1]>>, data |-> data, timestamp |-> now] IN
    IF <<k[1]>> \in cache_keys(c)
    THEN [c EXCEPT ![cache_index(c, <<k[1]>>)] = e]
    ELSE Append(c, e)

\* _file_cache[k] = {'data': data, 'timestamp': now}: a key the dict holds
\* keeps its place, a new key goes last
cache_put(c, k, data, now) ==
    LET e == [key |-> k, data |-> data, timestamp |-> now] IN
    IF k \in cache_keys(c)
    THEN [c EXCEPT ![cache_index(c, k)] = e]
    ELSE Append(c, e)

(***************************************************************************)
(* Exceptions and results.                                                 *)
(***************************************************************************)
NoExc == [type |-> "none", error_type |-> "", details |-> FALSE]
\* XmindLoadError(error_type, message, details)
XmindLoadError(error_type) ==
    [type |-> "XmindLoadError", error_type |-> error_type, details |-> TRUE]
\* an exception of another type
Raw(type) == [type |-> type, error_type |-> "", details |-> FALSE]

\* a validation failure reported by its condition
validation_error_by_reason(reason) ==
    XmindLoadError(CASE reason = "FileNotFoundError" -> "FILE_NOT_FOUND"
                     [] reason = "ValueError:extension" -> "BAD_EXTENSION"
                     [] reason = "ValueError:size" -> "EMPTY_FILE"
                     [] reason = "ValueError:content.json" -> "MISSING_PAYLOAD"
                     [] OTHER -> "BAD_ARCHIVE")

\* load, lines 423-425: what is raised when validate_xmind_file is False
validation_error(reason) == XmindLoadError("FILE_VALIDATION")

\* an except handler that keeps the parser's exception types apart
wrap_exception_by_type(type) ==
    XmindLoadError(CASE type = "ValueError" -> "MALFORMED_JSON"
                     [] type = "RuntimeError" -> "SCHEMA_INVALID"
                     [] OTHER -> "LOAD_FAILED")

\* an except handler that reports a payload that does not parse as an
\* empty file
wrap_exception_empty(type) ==
    XmindLoadError(IF type = "ValueError" THEN "EMPTY_FILE" ELSE "LOAD_FAILED")

\* load, lines 457-461: any exception that is no XmindLoadError becomes
\* LOAD_FAILED
wrap_exception(type) == XmindLoadError("LOAD_FAILED")

\* an extraction that reports every failure with the one kind
extraction_error_one_kind(type) == XmindLoadError("EXTRACTION_FAILED")

\* _extract_xmind_file, lines 475-480
extraction_error(type) ==
    IF type = "BadZipFile" THEN XmindLoadError("BAD_ZIP_FILE")
    ELSE XmindLoadError("EXTRACTION_FAILED")

\* a load that cleans up on the success path only
cleanup_called_on_success_only(exc) == exc.type = "none"

\* load calls self._cleanup() before returning and in both except handlers
cleanup_called(exc) == TRUE

\* start_debug reads the file size only when the debugger is enabled and
\* load is called with enable_debug
start_debug_reads(ctor_debug, load_debug) == ctor_debug /\ load_debug

(***************************************************************************)
(* webtool/application.py: the records table and the upload folder.  The   *)
(* table is the sequence of its rows, the id of a row being its index      *)
(* (ids are assigned in increasing order and rows are never removed); a    *)
(* file of the upload folder is the pair of the record name it belongs to  *)
(* and its extension (name[:-5] + 'xml' is <<name, "xml">>).               *)
(***************************************************************************)
MaxRecords == 2
MaxKeep == 2
MaxRetry == 2

Names == {"a.xmind", "b.xmind"}
Exts == <<"xmind", "xml", "csv">>

NewRecord(name) == [name |-> name, is_deleted |-> 0]

\* the ids of the rows WHERE is_deleted<>1
live_ids(records) == {i \in 1..Len(records) : records[i].is_deleted # 1}

\* ORDER BY id DESC
RECURSIVE order_by_id_desc(_)
order_by_id_desc(ids) ==
    IF ids = {} THEN <<>>
    ELSE LET m == CHOOSE m \in ids : \A i \in ids : i <= m
         IN <<m>> \o order_by_id_desc(ids \ {m})

\* a selection that always leaves the newest row out
offset_at_least_one(rows, keep) ==
    IF Len(rows) = 0 THEN <<>>
    ELSE SubSeq(rows, (IF keep >= 1 THEN keep ELSE 1) + 1, Len(rows))

\* LIMIT -1 OFFSET keep: a negative offset counts as none
offset(rows, keep) ==
    IF keep <= 0 THEN rows
    ELSE IF keep >= Len(rows) THEN <<>>
    ELSE SubSeq(rows, keep + 1, Len(rows))

\* mark_and_delete_old_records, line 141: the ids of the rows to delete
old_rows(records, keep) == offset(order_by_id_desc(live_ids(records)), keep)

\* lines 143-144: UPDATE records SET is_deleted=1 WHERE id=?
mark_deleted(records, rows) ==
    [i \in 1..Len(records) |->
        IF \E j \in 1..Len(rows) : rows[j] = i
        THEN [records[i] EXCEPT !.is_deleted = 1] ELSE records[i]]

\* lines 147-155: the files os.remove is tried on, in order (each only if
\* it exists at that moment)
RECURSIVE files_of_rows(_, _)
files_of_rows(records, rows) ==
    IF Len(rows) = 0 THEN <<>>
    ELSE [e \in 1..Len(Exts) |-> <<records[Head(rows)].name, Exts[e]>>]
            \o files_of_rows(records, Tail(rows))

\* the exceptions insert_record_and_cleanup retries on
retries_on_every_exception(exc) == TRUE

\* line 193: except sqlite3.OperationalError
retries_on(exc) == exc = "sqlite3.OperationalError"

\* the application before any request and outside any call
AppIdle(records, files) ==
    [pc |-> "idle", records |-> records, files |-> files,
     xmind_name |-> "", keep |-> 0, retry |-> 0, attempts |-> 0,
     out |-> "none", log |-> <<>>, records0 |-> records, files0 |-> files]

AppOff == AppIdle(<<>>, {})

(***************************************************************************)
(* State.                                                                  *)
(***************************************************************************)
VARIABLES
    fs,          \* the file at each path
    dirs,        \* the temporary directories: what each holds, "none" if absent
    clock,       \* time.time()
    file_cache,  \* _file_cache
    th,          \* each thread: the call it is in, its position and locals
    hist,        \* history: the last load, _set_cached_data or _clear_cache that ended
    inslog,      \* history: the keys inserted since the cache was last cleared
    looked,      \* history: the keys a lookup has hit since then
    calls,       \* how many calls were made
    gets,        \* how many direct lookups were made
    writes,      \* how many times a file was rewritten
    faults,      \* how many times the operating system failed an operation
    app          \* the web application: the records table, the upload folder
                 \* and the call of insert_record_and_cleanup in progress

vars == <<fs, dirs, clock, file_cache, th, hist, inslog, looked, calls, gets, writes, faults, app>>

NoOut == [kind |-> "none", val |-> <<>>, exc |-> NoExc, dir_left |-> FALSE]
NoHist == [op |-> "none", path |-> "a.XMind", ok |-> FALSE, val |-> <<>>,
           key |-> <<>>, stat |-> <<>>, entry |-> None, clean |-> FALSE]

\* a thread outside any call; XmindFileLoader.__init__ sets temp_dir and
\* content_data to None
Idle ==
    [pc |-> "idle", op |-> "none", path |-> "a.XMind",
     ctor_debug |-> FALSE, load_debug |-> FALSE,
     temp_dir |-> 0, content_data |-> None, doc |-> <<>>,
     oldest_key |-> <<>>, exc |-> NoExc, out |-> NoOut,
     \* history of the call
     hit |-> FALSE, why |-> "", stages |-> {}, key0 |-> <<>>,
     key_ins |-> <<>>, created |-> FALSE, rmfailed |-> FALSE,
     touched |-> FALSE, stat0 |-> <<>>, extracted |-> "", pred |-> NoHist]

stat_of(f) == IF exists(f) THEN <<f.mtime, getsize(f)>> ELSE <<>>

InitFiles == [p \in Paths |-> [kind |-> "modern", mtime |-> 1]]

InitRest ==
    /\ dirs = [d \in 1..MaxDirs |-> "none"]
    /\ clock = 0
    /\ th = [t \in Threads |-> Idle]
    /\ hist = NoHist
    /\ looked = {}
    /\ calls = 0
    /\ gets = 0
    /\ writes = 0
    /\ faults = 0
    /\ app = AppOff

\* every path holds a valid archive
Init ==
    /\ fs = InitFiles
    /\ file_cache = <<>>
    /\ inslog = <<>>
    /\ InitRest

\* the cache after _set_cached_data("c.zip", data) at each modification time
\* of c.zip, in a process that has run for a while
EarlierCache ==
    LET key(m) == get_file_cache_key("c.zip", [kind |-> "modern", mtime |-> m])
    IN cache_put(cache_put(<<>>, key(1), <<>>, 0), key(2), <<>>, 0)

\* the path a.xmind holds any file; the process is fresh or has run for a
\* while
InitAny ==
    /\ fs \in {[InitFiles EXCEPT !["a.XMind"] = f] : f \in Files}
    /\ file_cache \in {<<>>, EarlierCache}
    /\ inslog = [i \in 1..Len(file_cache) |-> file_cache[i].key]
    /\ InitRest

(***************************************************************************)
(* XmindLoaderDebugger._analyze_content_structure, run by log_parse_time   *)
(* when instrumentation is on: whether it raises TypeError ('topic' in     *)
(* sheet, 'topics' in topic on a value that is no container).              *)
(***************************************************************************)
RECURSIVE count_topics_raises(_)
count_topics_raises(topic) ==
    \/ topic.t \in {"num", "null"}
    \/ /\ isdict(topic)
       /\ has(topic, "topics")
       /\ islist(topic.v["topics"])
       /\ \E i \in 1..Len(topic.v["topics"].v) :
              count_topics_raises(topic.v["topics"].v[i])

analyze_content_structure_raises(content_data) ==
    /\ isdict(content_data)
    /\ has(content_data, "sheets")
    /\ \E i \in 1..Len(content_data.v["sheets"].v) :
          LET sheet == content_data.v["sheets"].v[i] IN
          \/ sheet.t \in {"num", "null"}
          \/ isdict(sheet) /\ has(sheet, "topic")
                /\ count_topics_raises(sheet.v["topic"])

(***************************************************************************)
(* Helpers of the actions.                                                 *)
(***************************************************************************)
InCall(r) == r.pc \notin {"idle", "done"}
Done(t) == th[t].pc = "done"

\* the entries an extraction directory holds
names_in_dir(x) == IF x = "partial" THEN {} ELSE entries(x)

FreeDirs == {d \in 1..MaxDirs : dirs[d] = "none"}

\* the call of thread record r ends with `out`, the cache being c
EndCall(t, r, out, c) ==
    /\ th' = [th EXCEPT ![t] =
                [r EXCEPT !.pc = "done", !.out = out,
                          \* the loader object and the locals are gone
                          !.ctor_debug = FALSE, !.load_debug = FALSE,
                          !.temp_dir = 0, !.content_data = None,
                          !.doc = <<>>, !.oldest_key = <<>>, !.exc = NoExc]]
    /\ hist' = [op |-> r.op, path |-> r.path, ok |-> out.kind = "return",
                val |-> out.val,
                key |-> IF r.hit THEN r.key0 ELSE r.key_ins,
                stat |-> r.stat0,
                entry |-> cache_get(c, IF r.hit THEN r.key0 ELSE r.key_ins),
                clean |-> ~r.touched]

Return(val) == [kind |-> "return", val |-> val, exc |-> NoExc, dir_left |-> FALSE]
Raise(exc) == [kind |-> "raise", val |-> <<>>, exc |-> exc, dir_left |-> FALSE]

\* an exception raised inside load's try block: to the except handlers
ToExcept(t, r, exc) ==
    /\ th' = [th EXCEPT ![t] = [r EXCEPT !.pc = "cleanup", !.exc = exc]]
    /\ UNCHANGED hist

Goto(t, r, pc) ==
    /\ th' = [th EXCEPT ![t] = [r EXCEPT !.pc = pc]]
    /\ UNCHANGED hist

(***************************************************************************)
(* The environment: the clock advances, a file is rewritten.               *)
(***************************************************************************)
Tick ==
    /\ clock < MaxTime
    /\ clock' = clock + 1
    /\ UNCHANGED <<fs, dirs, file_cache, th, hist, inslog, looked, calls, gets, writes, faults, app>>

WriteFile(p, f) ==
    /\ writes < MaxWrites
    /\ f # fs[p]
    /\ fs' = [fs EXCEPT ![p] = f]
    /\ writes' = writes + 1
    /\ th' = [t \in Threads |->
                IF InCall(th[t]) /\ th[t].path = p
                THEN [th[t] EXCEPT !.touched = TRUE] ELSE th[t]]
    /\ hist' = IF hist.path = p THEN [hist EXCEPT !.clean = FALSE] ELSE hist
    /\ UNCHANGED <<dirs, clock, file_cache, inslog, looked, calls, gets, faults, app>>

(***************************************************************************)
(* Calls.                                                                  *)
(***************************************************************************)
CanCall(t) == th[t].pc \in {"idle", "done"} /\ calls < MaxCalls
OthersQuiet(t) == \A u \in Threads \ {t} : ~InCall(th[u])

\* XmindFileLoader(p, enable_debug=cd).load(enable_debug=ld)
CallLoad(t, p, cd, ld) ==
    /\ CanCall(t)
    /\ th' = [th EXCEPT ![t] =
                [Idle EXCEPT !.pc = "start_debug", !.op = "load", !.path = p,
                             !.ctor_debug = cd, !.load_debug = ld,
                             !.stat0 = stat_of(fs[p]), !.pred = hist]]
    /\ calls' = calls + 1
    /\ UNCHANGED <<fs, dirs, clock, file_cache, hist, inslog, looked, gets, writes, faults, app>>

\* _set_cached_data(p, data)
CallSet(t, p, data) ==
    /\ CanCall(t)
    /\ th' = [th EXCEPT ![t] =
                [Idle EXCEPT !.pc = "set_check", !.op = "set", !.path = p,
                             !.doc = data,
                             !.stat0 = stat_of(fs[p]), !.pred = hist]]
    /\ calls' = calls + 1
    /\ UNCHANGED <<fs, dirs, clock, file_cache, hist, inslog, looked, gets, writes, faults, app>>

\* _get_cached_data(p)
GetCachedData(t, p) ==
    /\ th[t].pc \in {"idle", "done"}
    /\ gets < MaxGets
    /\ LET k == get_file_cache_key(p, fs[p])
           e == cache_get(file_cache, k)
           r == [Idle EXCEPT !.pc = "done", !.op = "get", !.path = p, !.key0 = k,
                             !.hit = (e # None), !.stat0 = stat_of(fs[p]),
                             !.out = Return(IF e = None THEN <<>> ELSE e.data)]
       IN /\ file_cache' = cache_after_get(file_cache, k, clock)
          /\ looked' = IF e # None THEN looked \cup {k} ELSE looked
          /\ th' = [th EXCEPT ![t] = r]
    /\ gets' = gets + 1
    /\ UNCHANGED <<fs, dirs, clock, hist, inslog, calls, writes, faults, app>>

\* _clear_cache()
ClearCache(t) ==
    /\ CanCall(t)
    /\ file_cache' = <<>>
    /\ inslog' = <<>>
    /\ looked' = {}
    /\ EndCall(t, [Idle EXCEPT !.op = "clear", !.pred = hist], Return(<<>>), <<>>)
    /\ calls' = calls + 1
    /\ UNCHANGED <<fs, dirs, clock, gets, writes, faults, app>>

(***************************************************************************)
(* XmindFileLoader.load, step by step.                                     *)
(***************************************************************************)
\* lines 411-412: start_debug, outside the try block
StartDebug(t) ==
    LET r == th[t] IN
    /\ r.pc = "start_debug"
    /\ IF start_debug_reads(r.ctor_debug, r.load_debug) /\ ~exists(fs[r.path])
       THEN EndCall(t, r, Raise(Raw("FileNotFoundError")), file_cache)
       ELSE Goto(t, r, "lookup")
    /\ UNCHANGED <<fs, dirs, clock, file_cache, inslog, looked, calls, gets, writes, faults, app>>

\* lines 415-419: the cache lookup
Lookup(t) ==
    LET r == th[t]
        k == get_file_cache_key(r.path, fs[r.path])
        cached_data == cache_get(file_cache, k)
        c == cache_after_get(file_cache, k, clock)
        r1 == [r EXCEPT !.key0 = k]
    IN
    /\ r.pc = "lookup"
    /\ file_cache' = c
    /\ IF cached_data # None
       THEN /\ looked' = looked \cup {k}
            /\ EndCall(t, [r1 EXCEPT !.hit = TRUE, !.content_data = cached_data.data],
                       Return(cached_data.data), c)
       ELSE /\ Goto(t, r1, "validate")
            /\ UNCHANGED looked
    /\ UNCHANGED <<fs, dirs, clock, inslog, calls, gets, writes, faults, app>>

\* lines 423-425
Validate(t) ==
    LET r == th[t]
        why == validate_reason(r.path, fs[r.path])
        r1 == [r EXCEPT !.stages = @ \cup {"validate"}, !.why = why]
    IN
    /\ r.pc = "validate"
    /\ IF validate_xmind_file(r.path, fs[r.path])
       THEN Goto(t, r1, "extract")
       ELSE ToExcept(t, r1, validation_error(why))
    /\ UNCHANGED <<fs, dirs, clock, file_cache, inslog, looked, calls, gets, writes, faults, app>>

\* lines 428-432 and _extract_xmind_file: mkdtemp, then ZipFile.extractall;
\* io is what the operating system does (mkdtemp or a write may fail)
Extract(t) ==
    LET r == th[t]
        f == fs[r.path]
        r1 == [r EXCEPT !.stages = @ \cup {"extract"}]
    IN
    /\ r.pc = "extract"
    /\ \E io \in {"ok", "mkdtemp fails", "write fails"} :
          /\ io = "ok" \/ faults < MaxFaults
          /\ IF io = "mkdtemp fails"
             THEN /\ ToExcept(t, [r1 EXCEPT !.why = "OSError"], extraction_error("OSError"))
                  /\ faults' = faults + 1
                  /\ UNCHANGED dirs
             ELSE /\ FreeDirs # {}
                  /\ LET d == CHOOSE d \in FreeDirs : \A e \in FreeDirs : d <= e
                         ex == IF ~exists(f) THEN "FileNotFoundError"
                               ELSE IF ~is_zip(f) \/ ~crc_ok(f) THEN "BadZipFile"
                               ELSE IF io = "write fails" THEN "OSError"
                               ELSE "none"
                         r2 == [r1 EXCEPT !.temp_dir = d, !.created = TRUE]
                     IN /\ faults' = IF ex = "OSError" THEN faults + 1 ELSE faults
                        /\ io = "ok" \/ ex = "OSError"
                        /\ IF ex = "none"
                           THEN /\ dirs' = [dirs EXCEPT ![d] = f.kind]
                                /\ Goto(t, [r2 EXCEPT !.extracted = f.kind], "parse")
                           ELSE /\ dirs' = [dirs EXCEPT ![d] = "partial"]
                                /\ ToExcept(t, [r2 EXCEPT !.why = ex], extraction_error(ex))
    /\ UNCHANGED <<fs, clock, file_cache, inslog, looked, calls, gets, writes, app>>

\* lines 435-439: parse_content_json, then log_parse_time
Parse(t) ==
    LET r == th[t]
        x == dirs[r.temp_dir]
        res == parse_content_json(names_in_dir(x), x)
        r1 == [r EXCEPT !.stages = @ \cup {"parse"}, !.why = res.why]
    IN
    /\ r.pc = "parse"
    /\ IF res.exc # "none"
       THEN ToExcept(t, r1, wrap_exception(res.exc))
       ELSE IF r.load_debug /\ r.ctor_debug
                /\ analyze_content_structure_raises(res.val)
       THEN ToExcept(t, [r1 EXCEPT !.why = "TypeError"], wrap_exception("TypeError"))
       ELSE Goto(t, [r1 EXCEPT !.content_data = res.val], "convert")
    /\ UNCHANGED <<fs, dirs, clock, file_cache, inslog, looked, calls, gets, writes, faults, app>>

\* lines 442-443: convert_to_xmind_format
Convert(t) ==
    LET r == th[t]
        r1 == [r EXCEPT !.stages = @ \cup {"convert"}]
    IN
    /\ r.pc = "convert"
    /\ IF convert_raises(r.content_data)
       THEN ToExcept(t, [r1 EXCEPT !.why = "AttributeError"],
                     wrap_exception("AttributeError"))
       ELSE \E u \in 1..MaxUuid :
              /\ needs_uuid(r.content_data) \/ u = 1
              /\ Goto(t, [r1 EXCEPT !.doc = convert_to_xmind_format(r.content_data, u)],
                      "set_check")
    /\ UNCHANGED <<fs, dirs, clock, file_cache, inslog, looked, calls, gets, writes, faults, app>>

(***************************************************************************)
(* _set_cached_data, step by step: the capacity check, min(), del and the  *)
(* insert are separate bytecode sequences, and another thread may run      *)
(* between them.  Inside load an exception goes to load's except handler.  *)
(***************************************************************************)
SetFails(t, r, type) ==
    IF r.op = "load"
    THEN ToExcept(t, [r EXCEPT !.why = type], wrap_exception(type))
    ELSE EndCall(t, r, Raise(Raw(type)), file_cache)

\* line 44
SetCheck(t) ==
    LET r == th[t] IN
    /\ r.pc = "set_check"
    /\ Goto(t, r, IF cache_full(file_cache) THEN "set_min" ELSE "set_insert")
    /\ UNCHANGED <<fs, dirs, clock, file_cache, inslog, looked, calls, gets, writes, faults, app>>

\* line 45
SetMin(t) ==
    LET r == th[t] IN
    /\ r.pc = "set_min"
    /\ IF Len(file_cache) = 0
       THEN SetFails(t, r, "ValueError")
       ELSE Goto(t, [r EXCEPT !.oldest_key = oldest_key_of(file_cache)], "set_del")
    /\ UNCHANGED <<fs, dirs, clock, file_cache, inslog, looked, calls, gets, writes, faults, app>>

\* line 46
SetDel(t) ==
    LET r == th[t] IN
    /\ r.pc = "set_del"
    /\ IF r.oldest_key \notin cache_keys(file_cache)
       THEN SetFails(t, r, "KeyError") /\ UNCHANGED file_cache
       ELSE /\ file_cache' = cache_del(file_cache, r.oldest_key)
            /\ Goto(t, r, "set_insert")
    /\ UNCHANGED <<fs, dirs, clock, inslog, looked, calls, gets, writes, faults, app>>

\* lines 48-52
SetInsert(t) ==
    LET r == th[t]
        k == get_file_cache_key(r.path, fs[r.path])
        c == cache_put(file_cache, k, r.doc, clock)
        r1 == [r EXCEPT !.key_ins = k]
    IN
    /\ r.pc = "set_insert"
    /\ file_cache' = c
    /\ inslog' = Append(inslog, k)
    /\ IF r.op = "load"
       THEN Goto(t, r1, "cleanup")
       ELSE EndCall(t, r1, Return(<<>>), c)
    /\ UNCHANGED <<fs, dirs, clock, looked, calls, gets, writes, faults, app>>

\* lines 449-461 and _cleanup: the temporary directory is removed if it
\* exists, a failure of shutil.rmtree is logged and swallowed; then load
\* returns self.content_data or raises
Cleanup(t) ==
    LET r == th[t]
        has_dir == r.temp_dir # 0 /\ dirs[r.temp_dir] # "none"
        tries == has_dir /\ cleanup_called(r.exc)
    IN
    /\ r.pc = "cleanup"
    /\ \E rmtree_ok \in BOOLEAN :
          /\ rmtree_ok \/ (tries /\ faults < MaxFaults)
          /\ faults' = IF rmtree_ok THEN faults ELSE faults + 1
          /\ dirs' = IF tries /\ rmtree_ok
                     THEN [dirs EXCEPT ![r.temp_dir] = "none"] ELSE dirs
          /\ LET out == IF r.exc = NoExc THEN Return(r.doc) ELSE Raise(r.exc)
                 left == has_dir /\ ~(tries /\ rmtree_ok)
             IN EndCall(t, [r EXCEPT !.rmfailed = tries /\ ~rmtree_ok],
                        [out EXCEPT !.dir_left = left], file_cache)
    /\ UNCHANGED <<fs, clock, file_cache, inslog, looked, calls, gets, writes, app>>

(***************************************************************************)
(* Specifications.                                                         *)
(***************************************************************************)
\* the data handed to a direct _set_cached_data
TestData == {<<>>}

Call(t) ==
    \/ \E p \in Paths, cd \in BOOLEAN, ld \in BOOLEAN : CallLoad(t, p, cd, ld)
    \/ \E p \in Paths, data \in TestData : CallSet(t, p, data)
    \/ \E p \in Paths : GetCachedData(t, p)
    \/ ClearCache(t)

Step(t) ==
    \/ StartDebug(t)
    \/ Lookup(t)
    \/ Validate(t)
    \/ Extract(t)
    \/ Parse(t)
    \/ Convert(t)
    \/ SetCheck(t)
    \/ SetMin(t)
    \/ SetDel(t)
    \/ SetInsert(t)
    \/ Cleanup(t)

\* the calls of the sequential runs; instrumentation is switched on or off
\* as a whole
CallSeq(t) ==
    \/ \E p \in Paths, debug \in BOOLEAN : CallLoad(t, p, debug, debug)
    \/ \E p \in Paths, data \in TestData : CallSet(t, p, data)
    \/ \E p \in Paths : GetCachedData(t, p)
    \/ ClearCache(t)

\* sequential calls, the file a.XMind changing between the calls
Next ==
    \/ OthersQuiet("t1") /\ CallSeq("t1")
    \/ \E t \in Threads : Step(t)
    \/ Tick
    \/ \E f \in Written :
          (\A t \in Threads : ~InCall(th[t])) /\ WriteFile("a.XMind", f)

Spec == Init /\ [][Next]_vars

\* one load of a.XMind holding any file, the files changing at any time
NextAny ==
    \/ \E p \in Paths, cd \in BOOLEAN, ld \in BOOLEAN :
          calls = 0 /\ CallLoad("t1", p, cd, ld)
    \/ \E t \in Threads : Step(t)
    \/ Tick
    \/ \E p \in Paths, f \in Written : WriteFile(p, f)

SpecAny == InitAny /\ [][NextAny]_vars

\* concurrent calls on files that do not change
NextConc ==
    \/ \E t \in Threads : Call(t)
    \/ \E t \in Threads : Step(t)
    \/ Tick

SpecConc == Init /\ [][NextConc]_vars

\* one load of a.XMind, which holds an archive with any content.json; the
\* files do not change
DocFiles == [kind : PayloadKinds \cup DocKinds, mtime : {1}]

InitDoc ==
    /\ fs \in {[InitFiles EXCEPT !["a.XMind"] = f] : f \in DocFiles}
    /\ file_cache \in {<<>>, EarlierCache}
    /\ inslog = [i \in 1..Len(file_cache) |-> file_cache[i].key]
    /\ InitRest

NextDoc ==
    \/ \E cd \in BOOLEAN, ld \in BOOLEAN :
          calls = 0 /\ CallLoad("t1", "a.XMind", cd, ld)
    \/ \E t \in Threads : Step(t)

SpecDoc == InitDoc /\ [][NextDoc]_vars

\* two loads of a.XMind, which holds any file, at the same time: one with
\* the instrumentation as the caller chooses, one with the instrumentation
\* off
PairFiles == [kind : Kinds \cup DocKinds, mtime : {1}]

InitPair ==
    /\ fs \in {[InitFiles EXCEPT !["a.XMind"] = f] : f \in PairFiles}
    /\ file_cache \in {<<>>, EarlierCache}
    /\ inslog = [i \in 1..Len(file_cache) |-> file_cache[i].key]
    /\ InitRest

NextPair ==
    \/ \E cd \in BOOLEAN, ld \in BOOLEAN :
          th["t1"].pc = "idle" /\ CallLoad("t1", "a.XMind", cd, ld)
    \/ th["t2"].pc = "idle" /\ CallLoad("t2", "a.XMind", FALSE, FALSE)
    \/ \E t \in Threads : Step(t)

SpecPair == InitPair /\ [][NextPair]_vars

\* two request threads, each loading one of two valid archives, in a
\* process whose cache holds one or two older entries
RacePaths == {"a.XMind", "b.xmind"}

RaceFiles ==
    [p \in Paths \cup RacePaths |->
        [kind |-> IF p = "b.xmind" THEN "legacy" ELSE "modern", mtime |-> 1]]

OlderEntry ==
    cache_put(<<>>, get_file_cache_key("c.zip", [kind |-> "modern", mtime |-> 2]),
              <<>>, 0)

InitRace ==
    /\ fs = RaceFiles
    /\ file_cache \in {OlderEntry, EarlierCache}
    /\ inslog = [i \in 1..Len(file_cache) |-> file_cache[i].key]
    /\ InitRest

NextRace ==
    \/ \E t \in Threads, p \in RacePaths :
          th[t].pc = "idle" /\ CallLoad(t, p, FALSE, FALSE)
    \/ \E t \in Threads : Step(t)
    \/ Tick

SpecRace == InitRace /\ [][NextRace]_vars

\* sequential loads and _clear_cache calls; a.XMind holds an archive that
\* loads or one that fails at validation, parsing or normalization, and is
\* rewritten between the calls
LifeKinds == {"modern", "legacy", "nopayload", "malformed", "sheets_empty",
              "badsheet"}
LifeFiles == [kind : LifeKinds, mtime : 1..MaxMtime]

InitLife ==
    /\ fs \in {[InitFiles EXCEPT !["a.XMind"] = f] :
                  f \in {g \in LifeFiles : g.mtime = 1}}
    /\ file_cache \in {<<>>, EarlierCache}
    /\ inslog = [i \in 1..Len(file_cache) |-> file_cache[i].key]
    /\ InitRest

NextLife ==
    \/ \E p \in Paths : OthersQuiet("t1") /\ CallLoad("t1", p, FALSE, FALSE)
    \/ OthersQuiet("t1") /\ ClearCache("t1")
    \/ \E t \in Threads : Step(t)
    \/ Tick
    \/ \E f \in LifeFiles :
          (\A t \in Threads : ~InCall(th[t])) /\ WriteFile("a.XMind", f)

SpecLife == InitLife /\ [][NextLife]_vars

(***************************************************************************)
(* DataFormatConverter used on its own: a caller converts one parsed        *)
(* payload twice with convert_to_xmind_format.  content_data is the         *)
(* caller's payload, doc the first document as it was returned.             *)
(***************************************************************************)
\* the content.json entries whose payload passes _validate_content_structure
ConvKinds ==
    {k \in PayloadKinds \cup DocKinds :
        /\ json_load(payload_text(k)) # JSONDecodeError
        /\ validate_content_structure(json_load(payload_text(k))) = "ok"}

\* content_data = json.load(content.json of kind k)
CallConvert(t, k) ==
    /\ th[t].pc = "idle"
    /\ th' = [th EXCEPT ![t] =
                [Idle EXCEPT !.pc = "conv_first", !.op = "convert",
                             !.extracted = k,
                             !.content_data = json_load(payload_text(k))]]
    /\ UNCHANGED <<fs, dirs, clock, file_cache, hist, inslog, looked, calls, gets, writes, faults, app>>

\* d1 = converter.convert_to_xmind_format(content_data)
ConvertFirst(t) ==
    LET r == th[t] IN
    /\ r.pc = "conv_first"
    /\ IF convert_raises(r.content_data)
       THEN th' = [th EXCEPT ![t] =
                     [r EXCEPT !.pc = "done", !.why = "AttributeError",
                               !.out = Raise(Raw("AttributeError"))]]
       ELSE \E u \in 1..MaxUuid :
              /\ needs_uuid(r.content_data) \/ u = 1
              /\ th' = [th EXCEPT ![t] =
                          [r EXCEPT !.pc = "conv_second",
                                    !.doc = convert_to_xmind_format(r.content_data, u),
                                    !.content_data = content_after_convert(r.content_data, u)]]
    /\ UNCHANGED <<fs, dirs, clock, file_cache, hist, inslog, looked, calls, gets, writes, faults, app>>

\* d2 = converter.convert_to_xmind_format(content_data)
ConvertSecond(t) ==
    LET r == th[t] IN
    /\ r.pc = "conv_second"
    /\ \E u \in 1..MaxUuid :
          /\ needs_uuid(r.content_data) \/ u = 1
          /\ th' = [th EXCEPT ![t] =
                      [r EXCEPT !.pc = "done",
                                !.out = Return(convert_to_xmind_format(r.content_data, u)),
                                !.content_data = content_after_convert(r.content_data, u)]]
    /\ UNCHANGED <<fs, dirs, clock, file_cache, hist, inslog, looked, calls, gets, writes, faults, app>>

NextConv ==
    \/ \E t \in Threads, k \in ConvKinds : CallConvert(t, k)
    \/ \E t \in Threads : ConvertFirst(t)
    \/ \E t \in Threads : ConvertSecond(t)

SpecConv == Init /\ [][NextConv]_vars

(***************************************************************************)
(* insert_record_and_cleanup, called as save_file calls it: the uploaded   *)
(* file has been saved under xmind_name.  An attempt is one pass of the    *)
(* while loop; the database holds the write lock from BEGIN IMMEDIATE to   *)
(* commit or rollback, so that an attempt is one step.                     *)
(***************************************************************************)
\* file.save(upload_to); insert_record_and_cleanup(name, keep=keep, retry=retry)
CallInsert(name, keep, retry) ==
    /\ app.pc = "idle"
    /\ app' = [app EXCEPT !.pc = "loop", !.xmind_name = name,
                          !.keep = keep, !.retry = retry,
                          !.files = @ \cup {<<name, "xmind">>},
                          !.files0 = app.files \cup {<<name, "xmind">>}]
    /\ UNCHANGED <<fs, dirs, clock, file_cache, th, hist, inslog, looked, calls, gets, writes, faults>>

\* the except clauses, lines 193-208: the transaction is rolled back; an
\* OperationalError is re-raised when the attempts are used up and leads
\* to the next pass otherwise, any other exception is raised
AfterException(site, exc, files) ==
    LET a == IF retries_on(exc) THEN app.attempts + 1 ELSE app.attempts
        raised == ~retries_on(exc) \/ a >= app.retry
    IN app' = [app EXCEPT !.attempts = a,
                          !.files = files,
                          !.log = Append(@, [site |-> site, exc |-> exc]),
                          !.pc = IF raised THEN "done" ELSE "loop",
                          !.out = IF raised THEN exc ELSE "none"]

\* one pass of the loop, lines 177-191
AttemptInsert ==
    LET inserted == Append(app.records, NewRecord(app.xmind_name))
        rows == old_rows(inserted, app.keep)
        targets == files_of_rows(inserted, rows)
        removed(j) == {targets[i] : i \in 1..j}
    IN
    /\ app.pc = "loop"
    /\ app.attempts < app.retry
    /\ \/ \* BEGIN IMMEDIATE finds the database locked
          AfterException("begin", "sqlite3.OperationalError", app.files)
       \/ \* the INSERT fails
          \E exc \in {"sqlite3.OperationalError", "sqlite3.IntegrityError"} :
              AfterException("insert", exc, app.files)
       \/ \* os.remove fails on a file that exists
          \E j \in 1..Len(targets) :
              /\ targets[j] \in app.files \ removed(j - 1)
              /\ AfterException("remove", "OSError", app.files \ removed(j - 1))
       \/ \* commit fails
          AfterException("commit", "sqlite3.OperationalError",
                         app.files \ removed(Len(targets)))
       \/ \* lines 188-191: commit, return True
          app' = [app EXCEPT !.records = mark_deleted(inserted, rows),
                             !.files = @ \ removed(Len(targets)),
                             !.log = Append(@, [site |-> "commit", exc |-> "none"]),
                             !.pc = "done", !.out = "True"]
    /\ UNCHANGED <<fs, dirs, clock, file_cache, th, hist, inslog, looked, calls, gets, writes, faults>>

\* line 176: the loop condition is false, the function ends without a
\* return statement
LoopEnds ==
    /\ app.pc = "loop"
    /\ ~(app.attempts < app.retry)
    /\ app' = [app EXCEPT !.pc = "done", !.out = "None"]
    /\ UNCHANGED <<fs, dirs, clock, file_cache, th, hist, inslog, looked, calls, gets, writes, faults>>

\* the table and the folder before the call: up to MaxRecords uploads, some
\* deleted; a record that is not deleted has its three files
AppRecords ==
    UNION {[1..n -> [name : Names, is_deleted : {0, 1}]] : n \in 0..MaxRecords}

InitApp ==
    /\ fs = InitFiles
    /\ file_cache = <<>>
    /\ inslog = <<>>
    /\ dirs = [d \in 1..MaxDirs |-> "none"]
    /\ clock = 0
    /\ th = [t \in Threads |-> Idle]
    /\ hist = NoHist
    /\ looked = {}
    /\ calls = 0 /\ gets = 0 /\ writes = 0 /\ faults = 0
    /\ \E records \in AppRecords :
          app = AppIdle(records,
                        {<<records[i].name, Exts[e]>> :
                            i \in live_ids(records), e \in 1..Len(Exts)})

\* app.config['RECORDS_KEEP'], line 49
RECORDS_KEEP == 1

\* the /cleanup handler, lines 439-468: without confirm=yes nothing is done;
\* otherwise one transaction marks and removes the old records; whatever
\* fails is rolled back, logged and swallowed, and the handler redirects
cleanup(confirm) ==
    LET rows == old_rows(app.records, RECORDS_KEEP)
        targets == files_of_rows(app.records, rows)
        removed(j) == {targets[i] : i \in 1..j}
        ended(site, exc, records, files) ==
            app' = [app EXCEPT !.records = records, !.files = files,
                               !.keep = RECORDS_KEEP,
                               !.log = Append(@, [site |-> site, exc |-> exc]),
                               !.pc = "cleaned", !.out = "redirect"]
    IN
    /\ app.pc = "idle"
    /\ IF confirm # "yes"
       THEN app' = [app EXCEPT !.pc = "cleaned", !.out = "redirect"]
       ELSE \/ \* BEGIN IMMEDIATE finds the database locked
               ended("begin", "sqlite3.OperationalError", app.records, app.files)
            \/ \* os.remove fails on a file that exists
               \E j \in 1..Len(targets) :
                   /\ targets[j] \in app.files \ removed(j - 1)
                   /\ ended("remove", "OSError", app.records, app.files \ removed(j - 1))
            \/ \* commit fails
               ended("commit", "sqlite3.OperationalError", app.records,
                     app.files \ removed(Len(targets)))
            \/ \* commit
               ended("commit", "none", mark_deleted(app.records, rows),
                     app.files \ removed(Len(targets)))
    /\ UNCHANGED <<fs, dirs, clock, file_cache, th, hist, inslog, looked, calls, gets, writes, faults>>

NextApp ==
    \/ \E name \in {"a.xmind", "n.xmind"}, keep \in 0..MaxKeep, retry \in 0..MaxRetry :
          CallInsert(name, keep, retry)
    \/ AttemptInsert
    \/ LoopEnds
    \/ \E confirm \in {"yes", "no"} : cleanup(confirm)

SpecApp == InitApp /\ [][NextApp]_vars

(***************************************************************************)
(* Properties.                                                             *)
(***************************************************************************)
LoadDone(t) == th[t].pc = "done" /\ th[t].op = "load"
Raised(t) == th[t].out.kind = "raise"
Returned(t) == th[t].out.kind = "return"
AllStages == {"validate", "extract", "parse", "convert"}
Distinct(seq) == \A i, j \in 1..Len(seq) : seq[i] = seq[j] => i = j
Range(seq) == {seq[i] : i \in 1..Len(seq)}
KeysInOrder == [i \in 1..Len(file_cache) |-> file_cache[i].key]

C2_EvictsFirstInserted ==
    (/\ Len(inslog) = cache_max_size + 1
     /\ Distinct(inslog)
     /\ \A t \in Threads : th[t].pc \notin {"set_min", "set_del", "set_insert"})
    => KeysInOrder = Tail(inslog)

\* the first inserted key was hit by a lookup at a later time than its
\* insertion and is evicted all the same
C2_Witness ==
    /\ Len(inslog) = cache_max_size + 1
    /\ Distinct(inslog)
    /\ inslog[1] \in looked
    /\ inslog[1] \notin cache_keys(file_cache)
    /\ \E i \in 1..Len(file_cache) : file_cache[i].timestamp > 0

\* C3: with sequential calls the cache never holds more than
\* cache_max_size entries.
C3_CacheBounded == Len(file_cache) <= cache_max_size

\* the cache is full after an eviction
C3_Witness ==
    /\ Len(file_cache) = cache_max_size
    /\ Len(inslog) > cache_max_size
    /\ Distinct(inslog)

\* C4 as stated: under concurrent calls the capacity-check / evict / insert
\* of _set_cached_data is atomic, so that the cache never holds more than
\* cache_max_size entries.
C4_ConcurrentCacheBounded ==
    /\ Len(file_cache) <= cache_max_size
    /\ \A t \in Threads : th[t].pc = "set_insert" =>
          Len(file_cache) < cache_max_size

\* C5: a load right after a successful load of the same path, the file
\* existing with the same modification time and size, is a cache hit and
\* returns the document the first load returned.
C5_SecondLoadHits ==
    \A t \in Threads :
        (/\ LoadDone(t)
         /\ th[t].pred.op = "load" /\ th[t].pred.ok
         /\ th[t].pred.path = th[t].path
         /\ th[t].stat0 # <<>>
         /\ th[t].pred.stat = th[t].stat0)
        => /\ th[t].hit
           /\ Returned(t)
           /\ th[t].out.val = th[t].pred.val
           /\ th[t].stages = {}

\* a second load that followed a load which parsed the file
C5_Witness ==
    \E t \in Threads :
        /\ LoadDone(t) /\ th[t].hit
        /\ th[t].pred.op = "load" /\ th[t].pred.ok
        /\ th[t].pred.path = th[t].path
        /\ th[t].stat0 # <<>>
        /\ th[t].pred.stat = th[t].stat0
        /\ th[t].pred.key \in Range(inslog)
        /\ th[t].out.val # <<>>

\* the premise of C6: a load right after a successful load of the same
\* path, the modification time or size of the file having changed
C6_Changed(t) ==
    /\ LoadDone(t)
    /\ th[t].pred.op = "load" /\ th[t].pred.ok
    /\ th[t].pred.path = th[t].path
    /\ th[t].pred.stat # <<>> /\ th[t].stat0 # <<>>
    /\ th[t].pred.stat # th[t].stat0

\* C6 as stated: the second load runs validation, extraction, parsing and
\* normalization again.
C6_ChangedFileIsReparsed ==
    \A t \in Threads :
        C6_Changed(t) => ~th[t].hit /\ "validate" \in th[t].stages

\* C6, amended: the second load looks up a fingerprint other than the one
\* of the first load, so it never returns the first load's entry; if no
\* entry is cached under the new fingerprint it runs validation,
\* extraction, parsing and normalization again and, when it succeeds,
\* inserts its document under the new fingerprint; if an entry is cached
\* under the new fingerprint (the file is back at an earlier modification
\* time and size) that entry is returned.  The entry of the old fingerprint
\* is not overwritten: it is unchanged, or evicted by the insert into a
\* full cache.
C6_NewFingerprint ==
    \A t \in Threads :
        C6_Changed(t) =>
            /\ th[t].key0 # th[t].pred.key
            /\ ~th[t].hit => "validate" \in th[t].stages
            /\ ~th[t].hit /\ Returned(t) =>
                  /\ th[t].stages = AllStages
                  /\ th[t].key_ins = th[t].key0
                  /\ cache_get(file_cache, th[t].key0) # None
                  /\ cache_get(file_cache, th[t].key0).data = th[t].out.val
            /\ th[t].hit =>
                  /\ Returned(t)
                  /\ cache_get(file_cache, th[t].key0).data = th[t].out.val
            /\ IF th[t].pred.key \in cache_keys(file_cache)
               THEN cache_get(file_cache, th[t].pred.key) = th[t].pred.entry
               ELSE ~th[t].hit /\ Returned(t)
                    /\ Len(file_cache) = cache_max_size

\* the changed file was parsed again and both entries are cached
C6_Witness ==
    \E t \in Threads :
        /\ C6_Changed(t) /\ ~th[t].hit /\ Returned(t)
        /\ th[t].pred.key \in cache_keys(file_cache)
        /\ th[t].key0 \in cache_keys(file_cache)

\* the error kind the specification gives each validation failure
validation_kind(reason) ==
    CASE reason = "FileNotFoundError" -> "FILE_NOT_FOUND"
      [] reason = "ValueError:extension" -> "BAD_EXTENSION"
      [] reason = "ValueError:size" -> "EMPTY_FILE"
      [] reason = "BadZipFile:open" -> "BAD_ARCHIVE"
      [] reason = "BadZipFile:testzip" -> "BAD_ARCHIVE"
      [] reason = "ValueError:content.json" -> "MISSING_PAYLOAD"
      [] OTHER -> ""

\* a load that failed in validate_xmind_file
ValidationFailed(t) ==
    LoadDone(t) /\ th[t].stages = {"validate"} /\ th[t].why # "ok"

ParseFailed(t) ==
    /\ LoadDone(t)
    /\ "parse" \in th[t].stages /\ "convert" \notin th[t].stages
    /\ th[t].why \notin {"ok", "TypeError"}

SchemaReasons == {"ValueError:empty array", "ValueError:root",
                  "ValueError:no sheets", "ValueError:sheets not list",
                  "ValueError:sheets empty"}

ZeroPayloadLoaded(t) ==
    LoadDone(t) /\ th[t].extracted = "zero" /\ "parse" \in th[t].stages

C10_OnlyXmindLoadError ==
    \A t \in Threads :
        LoadDone(t) /\ Raised(t) =>
            /\ th[t].out.exc.type = "XmindLoadError"
            /\ th[t].out.exc.error_type # ""
            /\ th[t].out.exc.details

\* the raw payload a load has parsed, and its raw sheets
RawPayload(t) == json_load(payload_text(th[t].extracted))
RawSheets(t) == sheets_of(RawPayload(t))
\* the raw payload of the archive at a path
FilePayload(p) == json_load(payload_text(fs[p].kind))
\* a load that parsed the payload itself and returned a document
Converted(t) == LoadDone(t) /\ Returned(t) /\ ~th[t].hit

\* C11 as stated: two loads of the same file from the same cache state, one
\* with instrumentation and one without, end with the same result: both
\* return (the same document, when no id is synthesized) or both raise the
\* same error.  The operating system fails nothing and neither load loses
\* the eviction race in the cache.
C11_InstrumentationKeepsOutcome ==
    (/\ LoadDone("t1") /\ LoadDone("t2") /\ faults = 0
     /\ \A t \in Threads : th[t].why # "KeyError") =>
        /\ th["t1"].out.kind = th["t2"].out.kind
        /\ th["t1"].out.exc = th["t2"].out.exc
        /\ (Returned("t1") /\ ~needs_uuid(FilePayload("a.XMind"))) =>
              th["t1"].out.val = th["t2"].out.val

\* a topic of a returned document is either a normalized topic (a record
\* with the eight fields) or an inline child that was passed through raw
IsRaw(x) == "t" \in DOMAIN x
NonEmptyId(id) == id.t = "uuid" \/ (isstr(id) /\ id.v # "")

RECURSIVE HasIdsAtEveryDepth(_)
HasIdsAtEveryDepth(topic) ==
    IF IsRaw(topic)
    THEN /\ isdict(topic)
         /\ has(topic, "id")
         /\ NonEmptyId(topic.v["id"])
         /\ LET inline == get(topic, "topics", None) IN
            islist(inline) =>
               \A i \in 1..Len(inline.v) : HasIdsAtEveryDepth(inline.v[i])
    ELSE /\ NonEmptyId(topic.id)
         /\ \A i \in 1..Len(topic.topics) : HasIdsAtEveryDepth(topic.topics[i])

\* C12 as stated: in every document a load returns, every topic at every
\* depth has a non-empty id.
C12_EveryTopicHasId ==
    \A t \in Threads :
        LoadDone(t) /\ Returned(t) =>
            \A i \in 1..Len(th[t].out.val) :
                HasIdsAtEveryDepth(th[t].out.val[i].topic)

\* the raw topic of a sheet as the specification locates it: under 'topic',
\* otherwise under 'rootTopic'
LocatedTopic(sheet) ==
    IF has(sheet, "topic") THEN sheet.v["topic"]
    ELSE IF has(sheet, "rootTopic") THEN sheet.v["rootTopic"]
    ELSE EmptyDict

\* C13 as stated: for a sheet of either schema generation the topic of the
\* returned sheet is the normalized raw topic found under 'topic' or, when
\* that field is absent, under 'rootTopic'.
C13_TopicOrRootTopic ==
    \A t \in Threads :
        Converted(t) =>
            \A i \in 1..Len(th[t].out.val) :
                \E u \in 1..MaxUuid :
                    th[t].out.val[i].topic =
                        convert_topic(LocatedTopic(RawSheets(t)[i]), u, <<i>>)

\* the raw topic load normalizes for sheet i, and the children of a raw topic
RawTopic(t, i) == sheet_topic(RawPayload(t), RawSheets(t)[i])
IsTopicDict(rt) == isdict(rt) /\ truthy(rt)
InlineOf(rt) ==
    IF islist(get(rt, "topics", None)) THEN get(rt, "topics", None).v ELSE <<>>

\* what names a child, raw or normalized: its id (none when the id is
\* missing, empty or synthesized) and its title
NamedId(id) == IF id.t = "uuid" \/ id = JStr("") THEN None ELSE id
ChildName(x) ==
    IF IsRaw(x)
    THEN IF isdict(x)
         THEN <<NamedId(get(x, "id", None)), get(x, "title", None)>>
         ELSE <<None, None>>
    ELSE <<NamedId(x.id), x.title>>

\* C14: the children of a normalized topic are the inline children of the
\* raw topic in source order followed by its attached children in source
\* order, none dropped, reordered or de-duplicated.
C14_InlineThenAttached ==
    \A t \in Threads :
        Converted(t) =>
            \A i \in 1..Len(th[t].out.val) :
                IsTopicDict(RawTopic(t, i)) =>
                    LET inline == InlineOf(RawTopic(t, i))
                        attached == attached_of(RawTopic(t, i))
                        kids == th[t].out.val[i].topic.topics
                    IN /\ Len(kids) = Len(inline) + Len(attached)
                       /\ \A j \in 1..Len(inline) :
                             ChildName(kids[j]) = ChildName(inline[j])
                       /\ \A j \in 1..Len(attached) :
                             ChildName(kids[Len(inline) + j]) = ChildName(attached[j])

\* inline [A, B] and attached [C, A] have given [A, B, C, A]
C14_Witness ==
    \E t \in Threads :
        /\ Converted(t) /\ th[t].extracted = "children"
        /\ LET kids == th[t].out.val[1].topic.topics IN
           [j \in 1..Len(kids) |-> ChildName(kids[j])[1]]
               = <<JStr("A"), JStr("B"), JStr("C"), JStr("A")>>

\* the string a marker entry stands for, None when it stands for none; by
\* the specification an object falls back to 'id' when 'markerId' is absent
StatedMarker(m) ==
    IF isstr(m) THEN m
    ELSE IF ~isdict(m) THEN None
    ELSE IF has(m, "markerId") THEN m.v["markerId"]
    ELSE get(m, "id", None)

\* ... and by the code, also when 'markerId' is null, "" or 0
FalsyFallbackMarker(m) ==
    IF isstr(m) THEN m
    ELSE IF ~isdict(m) THEN None
    ELSE IF has(m, "markerId") /\ truthy(m.v["markerId"]) THEN m.v["markerId"]
    ELSE get(m, "id", None)

KeptMarkers(raw, Marker(_)) ==
    SelectSeq([j \in 1..Len(raw) |-> Marker(raw[j])], isstr)

MarkersAre(Marker(_)) ==
    \A t \in Threads :
        Converted(t) =>
            \A i \in 1..Len(th[t].out.val) :
                (/\ IsTopicDict(RawTopic(t, i))
                 /\ islist(get(RawTopic(t, i), "markers", None))) =>
                    th[t].out.val[i].topic.markers =
                        KeptMarkers(RawTopic(t, i).v["markers"].v, Marker)

\* C15 as stated: the normalized markers are the plain strings as they are
\* and, for each object, its 'markerId' or, when 'markerId' is absent, its
\* 'id'; entries that give no string are dropped; order and duplicates are
\* kept.
C15_MarkerIdElseId == MarkersAre(StatedMarker)

\* C15, amended: as above, but an object falls back to its 'id' whenever its
\* 'markerId' is absent or falsy (null, "", 0), and an object whose chosen
\* identifier is no string is dropped, even when its 'id' is one.
C15_MarkerIdOrId == MarkersAre(FalsyFallbackMarker)

\* objects with an empty or null markerId have given their id
C15_Witness ==
    \E t \in Threads :
        /\ Converted(t) /\ th[t].extracted = "markers_edge"
        /\ th[t].out.val[1].topic.markers = <<JStr("m6"), JStr("m7"), JStr("")>>

\* a minimal topic: a synthesized id, the other fields absent or empty
IsMinimal(y) ==
    /\ ~IsRaw(y)
    /\ y.id.t = "uuid"
    /\ y.link = None /\ y.title = None /\ y.note = None
    /\ y.label = None /\ y.comment = None
    /\ y.markers = <<>> /\ y.topics = <<>>

\* the topic of every sheet is normalized; it is minimal when the raw topic
\* is absent or empty, and so is every child that stands for an empty
\* attached child
EmptyTopicsAreMinimal(t) ==
    \A i \in 1..Len(th[t].out.val) :
        LET rt == RawTopic(t, i)
            y == th[t].out.val[i].topic
        IN /\ ~IsRaw(y)
           /\ ~truthy(rt) => IsMinimal(y)
           /\ IsTopicDict(rt) =>
                 \A j \in 1..Len(attached_of(rt)) :
                     ~truthy(attached_of(rt)[j]) =>
                         IsMinimal(y.topics[Len(InlineOf(rt)) + j])

\* C16 as stated: an absent or empty raw topic of a sheet or of a child,
\* inline or attached, is normalized to a minimal topic.
C16_EmptyTopicIsMinimal ==
    \A t \in Threads :
        Converted(t) =>
            /\ EmptyTopicsAreMinimal(t)
            /\ \A i \in 1..Len(th[t].out.val) :
                  IsTopicDict(RawTopic(t, i)) =>
                      \A j \in 1..Len(InlineOf(RawTopic(t, i))) :
                          ~truthy(InlineOf(RawTopic(t, i))[j]) =>
                              IsMinimal(th[t].out.val[i].topic.topics[j])

\* the two shapes of a parsed payload that the specification accepts
AcceptedShape(v) ==
    IF islist(v) THEN Len(v.v) > 0
    ELSE IF ~isdict(v) THEN FALSE
    ELSE IF ~has(v, "sheets") THEN FALSE
    ELSE IF ~islist(v.v["sheets"]) THEN FALSE
    ELSE Len(v.v["sheets"].v) > 0

\* a load that read content.json and got a JSON value out of it
PayloadParsed(t) ==
    /\ LoadDone(t) /\ "parse" \in th[t].stages
    /\ RawPayload(t) # JSONDecodeError

\* C17: structural validation accepts exactly a non-empty list and an
\* object whose 'sheets' is a non-empty list; every other parsed value is
\* rejected: the load raises, normalizes nothing, returns no document and
\* caches none.
C17_ExactlyTwoShapes ==
    \A t \in Threads :
        PayloadParsed(t) =>
            IF AcceptedShape(RawPayload(t))
            THEN th[t].why \notin SchemaReasons
            ELSE /\ th[t].why \in SchemaReasons
                 /\ Raised(t)
                 /\ th[t].out.val = <<>>
                 /\ "convert" \notin th[t].stages
                 /\ th[t].key_ins = <<>>

\* an object whose 'sheets' is an empty list has been rejected
C17_Witness ==
    \E t \in Threads :
        /\ PayloadParsed(t) /\ Raised(t)
        /\ th[t].extracted = "sheets_empty"
        /\ th[t].why = "ValueError:sheets empty"

\* a load of an archive whose metadata.json does not parse
BadMetadataLoaded(t) ==
    /\ LoadDone(t) /\ "parse" \in th[t].stages
    /\ th[t].extracted = "meta_bad"

\* the same outcome as for the archive without metadata.json: its document
\* returned and cached under the fingerprint of the file
AsWithoutMetadata(t) ==
    /\ Returned(t)
    /\ th[t].out.val = convert_to_xmind_format(json_load(payload_text("modern")), 1)
    /\ th[t].key_ins = th[t].key0
    /\ cache_get(file_cache, th[t].key_ins) # None
    /\ cache_get(file_cache, th[t].key_ins).data = th[t].out.val

C19_ConcurrentLoadsSucceed ==
    /\ Distinct(KeysInOrder)
    /\ \A t \in Threads :
          LoadDone(t) /\ faults = 0 =>
              /\ Returned(t)
              /\ th[t].out.val =
                     convert_to_xmind_format(FilePayload(th[t].path), 1)

\* the step of a load that finds its fingerprint in the cache
HitStep(t) ==
    /\ th[t].op = "load" /\ th[t].pc = "lookup"
    /\ th'[t].pc = "done"

\* C20: on a cache hit load returns the cached document at once: no
\* validation, extraction, parsing or normalization has run, no temporary
\* directory is created, and the cache, entries and timestamps, is as it
\* was.
C20_HitReturnsCachedOnly ==
    [][\A t \in Threads :
          HitStep(t) =>
              LET k == get_file_cache_key(th[t].path, fs[th[t].path]) IN
              /\ cache_get(file_cache, k) # None
              /\ th'[t].out = Return(cache_get(file_cache, k).data)
              /\ th'[t].stages = {}
              /\ ~th'[t].created /\ th'[t].temp_dir = 0
              /\ dirs' = dirs
              /\ fs' = fs
              /\ file_cache' = file_cache]_vars

\* a load has hit an entry that is not the newest of a full cache
C20_Witness ==
    \E t \in Threads :
        /\ LoadDone(t) /\ th[t].hit /\ Returned(t)
        /\ th[t].out.val # <<>>
        /\ th[t].stages = {}
        /\ Len(file_cache) = cache_max_size
        /\ file_cache[1].key = th[t].key0

\* an archive load accepts: the path exists under a .xmind name, is not
\* empty, opens as a zip archive without damaged entries and holds
\* content.json
ArchiveIsValid(p, f) ==
    /\ exists(f)
    /\ lower_endswith_xmind(p)
    /\ getsize(f) > 0
    /\ is_zip(f) /\ crc_ok(f)
    /\ "content.json" \in namelist(f)

\* the step of a load in which validate_xmind_file runs
ValidateStep(t) == th[t].pc = "validate" /\ th'[t].pc # "validate"

\* a load that has not got past validation
NotPastValidation(t) ==
    /\ th[t].op = "load"
    /\ \/ th[t].pc \in {"lookup", "validate"}
       \/ th[t].pc = "cleanup" /\ th[t].stages = {"validate"}

\* C21: validation precedes extraction and has no side effects.  Up to the
\* end of a load that fails validation no directory is created and the file
\* system and the cache stay as they are; the load raises; extraction
\* starts only from a validation that has succeeded.
C21_ValidationBeforeExtraction ==
    [][\A t \in Threads :
          /\ NotPastValidation(t) =>
                /\ dirs' = dirs
                /\ file_cache' = file_cache
                /\ ~th'[t].created /\ th'[t].temp_dir = 0
          /\ ValidateStep(t) =>
                /\ fs' = fs
                /\ IF ArchiveIsValid(th[t].path, fs[th[t].path])
                   THEN th'[t].pc = "extract"
                   ELSE /\ th'[t].pc = "cleanup"
                        /\ th'[t].exc.type = "XmindLoadError"
          /\ (th[t].pc # "extract" /\ th'[t].pc = "extract") =>
                /\ ValidateStep(t)
                /\ ArchiveIsValid(th[t].path, fs[th[t].path])
          /\ (th[t].pc = "cleanup" /\ th[t].stages = {"validate"}
                /\ th'[t].pc = "done") =>
                /\ th'[t].out.kind = "raise"
                /\ th'[t].key_ins = <<>>]_vars

\* a zip archive without content.json has been refused, nothing extracted
C21_Witness ==
    \E t \in Threads :
        /\ ValidationFailed(t) /\ Raised(t)
        /\ th[t].why = "ValueError:content.json"
        /\ ~th[t].created
        /\ \A d \in 1..MaxDirs : dirs[d] = "none"

TopicFields == {"id", "link", "title", "note", "label", "comment",
                "markers", "topics"}

\* a topic in canonical shape, at every depth
RECURSIVE IsCanonical(_)
IsCanonical(y) ==
    IF IsRaw(y) THEN FALSE
    ELSE /\ DOMAIN y = TopicFields
         /\ \A i \in 1..Len(y.markers) : isstr(y.markers[i])
         /\ \A j \in 1..Len(y.topics) : IsCanonical(y.topics[j])

\* C22: in a document returned by load every topic at every depth, from an
\* inline 'topics' list or from 'children.attached', is in canonical shape.
C22_CanonicalAtEveryDepth ==
    \A t \in Threads :
        Converted(t) =>
            \A i \in 1..Len(th[t].out.val) :
                IsCanonical(th[t].out.val[i].topic)

\* a document without its synthesized ids
RECURSIVE TopicStructure(_)
TopicStructure(y) ==
    IF IsRaw(y) THEN y
    ELSE [y EXCEPT !.id = NamedId(y.id),
                   !.topics = [j \in 1..Len(y.topics) |-> TopicStructure(y.topics[j])]]

DocStructure(doc) ==
    [i \in 1..Len(doc) |-> [doc[i] EXCEPT !.topic = TopicStructure(doc[i].topic)]]

\* a caller that has converted its payload, once or twice
ConvertedOnce(t) == th[t].op = "convert" /\ th[t].pc = "conv_second"
ConvertedTwice(t) ==
    th[t].op = "convert" /\ th[t].pc = "done" /\ Returned(t)

\* C23: convert_to_xmind_format does not modify the parsed payload it is
\* given, and converting the same parsed payload twice yields structurally
\* equal documents, synthesized ids apart.
C23_ConversionIsPure ==
    \A t \in Threads :
        /\ ConvertedOnce(t) \/ ConvertedTwice(t) =>
              th[t].content_data = json_load(payload_text(th[t].extracted))
        /\ ConvertedTwice(t) =>
              DocStructure(th[t].out.val) = DocStructure(th[t].doc)

\* the note of a raw topic by the specification: the 'note' field when
\* present, else the content of notes.plain, else none
StatedNote(rt) ==
    LET notes == get(rt, "notes", None)
        plain == IF isdict(notes) THEN get(notes, "plain", None) ELSE None
    IN IF has(rt, "note") THEN rt.v["note"]
       ELSE IF isdict(plain) THEN get(plain, "content", None)
       ELSE None

\* ... and when an empty or null 'note' counts as no note, unless there is
\* no notes.plain object to take its place
NonEmptyNote(rt) ==
    LET notes == get(rt, "notes", None)
        plain == IF isdict(notes) THEN get(notes, "plain", None) ELSE None
    IN IF has(rt, "note") /\ truthy(rt.v["note"]) THEN rt.v["note"]
       ELSE IF isdict(plain) THEN get(plain, "content", None)
       ELSE get(rt, "note", None)

\* the notes of the topic of every sheet and of its attached children
NotesAre(Note(_)) ==
    \A t \in Threads :
        Converted(t) =>
            \A i \in 1..Len(th[t].out.val) :
                IsTopicDict(RawTopic(t, i)) =>
                    LET rt == RawTopic(t, i)
                        y == th[t].out.val[i].topic
                    IN /\ y.note = Note(rt)
                       /\ \A j \in 1..Len(attached_of(rt)) :
                             IsTopicDict(attached_of(rt)[j]) =>
                                 y.topics[Len(InlineOf(rt)) + j].note
                                     = Note(attached_of(rt)[j])

\* C24 as stated: the normalized note is the 'note' field when present,
\* otherwise the 'content' of notes.plain when 'notes' and 'notes.plain' are
\* objects, otherwise absent.
C24_NoteElsePlainContent == NotesAre(StatedNote)

\* C24, amended: the normalized note is the 'note' field when that is
\* present and not empty or null; otherwise the 'content' of notes.plain
\* when 'notes' and 'notes.plain' are objects (absent when there is no
\* 'content'); otherwise the 'note' field as it is, absent when there is
\* none.
C24_NonEmptyNoteElsePlainContent == NotesAre(NonEmptyNote)

\* an empty note has given way to the content of notes.plain, and has
\* stayed empty where there is no notes.plain
C24_Witness ==
    \E t \in Threads :
        /\ Converted(t) /\ th[t].extracted = "notes_edge"
        /\ [j \in 1..Len(th[t].out.val[1].topic.topics) |->
               th[t].out.val[1].topic.topics[j].note]
             = <<JStr("n2"), JStr(""), None, JStr("n2"), JStr("")>>

\* a load before its cache insert, and a load in its except handler
BeforeInsert(t) ==
    /\ th[t].op = "load"
    /\ \/ th[t].pc \in {"lookup", "validate", "extract", "parse", "convert"}
       \/ th[t].pc = "cleanup" /\ th[t].exc # NoExc

\* the step that evicts k for want of room, and the step of _clear_cache
EvictionOf(k) ==
    \E t \in Threads :
        /\ th[t].pc = "set_del" /\ th'[t].pc # "set_del"
        /\ th[t].oldest_key = k
        /\ Len(file_cache) >= cache_max_size
ClearStep ==
    \E t \in Threads :
        /\ th[t].pc \in {"idle", "done"}
        /\ th'[t].pc = "done" /\ th'[t].op = "clear"

\* C25: a load that fails at validation, extraction, parsing or
\* normalization leaves the cache exactly as it was; an entry appears only
\* in the insert of a load, which then returns; an entry once inserted stays
\* as it is until it is evicted for want of room or _clear_cache runs.
C25_EntryLifecycle ==
    [][/\ \A t \in Threads :
             /\ BeforeInsert(t) =>
                   file_cache' = file_cache /\ th'[t].key_ins = <<>>
             /\ (th[t].op = "load" /\ th[t].exc = NoExc
                    /\ th'[t].exc # NoExc) =>
                   th[t].pc \in {"validate", "extract", "parse", "convert"}
             /\ (th[t].pc = "cleanup" /\ th'[t].pc = "done"
                    /\ th[t].key_ins # <<>>) =>
                   th'[t].out.kind = "return"
       /\ \A k \in cache_keys(file_cache') \ cache_keys(file_cache) :
             \E t \in Threads :
                 /\ th[t].op = "load" /\ th[t].pc = "set_insert"
                 /\ th'[t].key_ins = k
       /\ \A k \in cache_keys(file_cache) :
             \/ cache_get(file_cache', k) = cache_get(file_cache, k)
             \/ EvictionOf(k)
             \/ ClearStep /\ file_cache' = <<>>]_vars

\* a load has failed in normalization with the cache holding two entries
C25_Witness ==
    \E t \in Threads :
        /\ LoadDone(t) /\ Raised(t)
        /\ "convert" \in th[t].stages
        /\ th[t].key_ins = <<>>
        /\ Len(file_cache) = cache_max_size

\* a load that failed in _extract_xmind_file
ExtractionFailed(t) ==
    /\ LoadDone(t)
    /\ th[t].stages = {"validate", "extract"}
    /\ th[t].why \in {"OSError", "BadZipFile", "FileNotFoundError"}

C27_SheetsPassThrough ==
    \A t \in Threads :
        Converted(t) =>
            /\ Len(th[t].out.val) = Len(RawSheets(t))
            /\ \A i \in 1..Len(th[t].out.val) :
                  /\ th[t].out.val[i].id = get(RawSheets(t)[i], "id", JStr(""))
                  /\ th[t].out.val[i].title = get(RawSheets(t)[i], "title", None)
                  /\ th[t].out.val[i].id # None

(***************************************************************************)
(* The web application: insert_record_and_cleanup.                         *)
(***************************************************************************)
\* the k largest of a set of ids (all of them when there are fewer than k)
Largest(ids, k) == {i \in ids : Cardinality({j \in ids : j > i}) < k}

ReturnedTrue == app.pc = "done" /\ app.out = "True"

\* the id the call gave to the new record
NewId == Len(app.records0) + 1

\* the records the call found not marked deleted, and the new one
LiveBefore == live_ids(app.records0) \cup {NewId}

FilesRemovedOf(i) ==
    \A e \in 1..Len(Exts) : <<app.records[i].name, Exts[e]>> \notin app.files

\* C28 as stated: after insert_record_and_cleanup(name, keep=k) has returned
\* True, the records not marked deleted are the k records with the largest
\* ids of the table, and the files of every older record are removed.
C28_KeepsLargestIds ==
    ReturnedTrue =>
        /\ Len(app.records) = NewId
        /\ live_ids(app.records) = Largest(1..NewId, app.keep)
        /\ \A i \in (1..NewId) \ Largest(1..NewId, app.keep) : FilesRemovedOf(i)

\* C28: after insert_record_and_cleanup(name, keep=k) has returned True, the
\* records not marked deleted are the k largest ids among the new record
\* and the records that were not marked deleted before the call (the new
\* one among them when k >= 1); every other record is marked is_deleted=1,
\* and the .xmind, .xml and .csv files of the records the call marked are
\* removed.
C28_KeepsLargestLiveIds ==
    ReturnedTrue =>
        /\ Len(app.records) = NewId
        /\ app.records[NewId].name = app.xmind_name
        /\ live_ids(app.records) = Largest(LiveBefore, app.keep)
        /\ (app.keep >= 1 => NewId \in live_ids(app.records))
        /\ \A i \in (1..NewId) \ Largest(LiveBefore, app.keep) :
              app.records[i].is_deleted = 1
        /\ \A i \in LiveBefore \ Largest(LiveBefore, app.keep) : FilesRemovedOf(i)

\* a call that returned True, kept the new record and marked an older one
C28_Witness ==
    /\ ReturnedTrue
    /\ app.keep = 1
    /\ app.records[NewId].is_deleted = 0
    /\ \E i \in live_ids(app.records0) :
          /\ app.records[i].is_deleted = 1
          /\ <<app.records0[i].name, "xmind">> \in app.files0
          /\ FilesRemovedOf(i)


\* a step that is one attempt of the call
AttemptStep == app.pc = "loop" /\ Len(app'.log) = Len(app.log) + 1

\* the exception the attempt of this step ended with ("none": it committed)
AttemptExc == app'.log[Len(app'.log)].exc

RaisedNow(exc) == app'.pc = "done" /\ app'.out = exc

\* C29: insert_record_and_cleanup retries only on sqlite3.OperationalError:
\* an attempt that fails leaves the table as it was (rolled back), at most
\* retry attempts are made, an OperationalError leads to another attempt
\* unless it was the last one, where it is raised, and any other exception
\* is raised at once without counting as an attempt to retry.
C29_RetriesOnlyOperationalError ==
    [][AttemptStep =>
        /\ Len(app'.log) <= app.retry
        /\ (AttemptExc # "none" => app'.records = app.records)
        /\ (AttemptExc = "sqlite3.OperationalError" =>
              /\ app'.attempts = app.attempts + 1
              /\ IF app'.attempts >= app.retry
                 THEN RaisedNow("sqlite3.OperationalError")
                 ELSE app'.pc = "loop")
        /\ (AttemptExc \notin {"none", "sqlite3.OperationalError"} =>
              /\ app'.attempts = app.attempts
              /\ RaisedNow(AttemptExc))
        /\ (AttemptExc = "none" => app'.pc = "done" /\ app'.out = "True")]_vars

\* the call made its two attempts, both ended with OperationalError, and the
\* second one was raised with the table as it was before the call
C29_Witness ==
    /\ app.pc = "done"
    /\ app.retry = 2
    /\ Len(app.log) = 2
    /\ \A j \in 1..2 : app.log[j].exc = "sqlite3.OperationalError"
    /\ app.out = "sqlite3.OperationalError"
    /\ app.records = app.records0


Exceptions == {"sqlite3.OperationalError", "sqlite3.IntegrityError", "OSError"}

\* C30 as stated: every call of insert_record_and_cleanup ends either by
\* returning True with the insert of the new record committed, or by
\* raising; it never returns without having inserted the record, whatever
\* the value of retry.
C30_TrueOrRaises ==
    app.pc = "done" =>
        \/ /\ app.out = "True"
           /\ Len(app.records) = NewId
           /\ app.records[NewId].name = app.xmind_name
        \/ app.out \in Exceptions


\* the last attempt or cleanup transaction was rolled back
RolledBack ==
    /\ Len(app.log) > 0
    /\ app.log[Len(app.log)].exc # "none"

\* the file belongs to a record whose is_deleted mark is in the table
OfMarkedRecord(f) ==
    \E i \in 1..Len(app.records) :
        app.records[i].name = f[1] /\ app.records[i].is_deleted = 1

\* C31 as stated: insert and cleanup are atomic with respect to files: a
\* file is removed only for a record whose is_deleted mark is committed, so
\* when the transaction of insert_record_and_cleanup or of the /cleanup
\* handler was rolled back no file has been removed, and every record not
\* marked deleted still has its uploaded file.
C31_FilesFollowCommittedMarks ==
    /\ \A f \in app.files0 \ app.files : OfMarkedRecord(f)
    /\ (RolledBack /\ app.records = app.records0 => app.files = app.files0)
    /\ (RolledBack =>
          \A i \in live_ids(app.records) :
              <<app.records[i].name, "xmind">> \in app.files0
                  => <<app.records[i].name, "xmind">> \in app.files)

====
